---- MODULE Spec2Model ----
(***************************************************************************)
(* A model of the resilience combinators of combinators.py.                *)
(*                                                                         *)
(* Every combinator is modelled as the state machine of its inner          *)
(* `run()` coroutine: one action per await point or handler step.  The     *)
(* combinators are independent of each other, so each has its own          *)
(* variables and its own specification (SpecBracket, SpecRetry, ...); the  *)
(* variables of the other combinators stay at their idle value.            *)
(*                                                                         *)
(* Values.  A Result is a record [tag |-> "Ok", val |-> v] or              *)
(* [tag |-> "Error", val |-> e].  A WriterResult is a record               *)
(* [result |-> Result, log |-> sequence of entries].  What a coroutine     *)
(* hands to its caller is [kind |-> "return", val |-> raw] or              *)
(* [kind |-> "raise", val |-> [tag |-> "Exception", val |-> x]].           *)
(***************************************************************************)
EXTENDS Integers, Sequences, FiniteSets, TLC

VARIABLES
    \* ---- bracket (control/bracket.py)
    b_variant,      \* "bracket" (bracketM through bracket) or "bracket_w"
    b_pc,           \* position of run(): "acquire", "use", "using", "release", "done"
    b_acquire,      \* what `await acquire()` produced, NoRaw before
    b_use,          \* how `await use(resource)()` ended, NoOutcome before
    b_release,      \* how `await release(resource)` ended: "none", "return", "raise"
    b_pending,      \* what the try block is about to hand out while finally runs
    b_events,       \* the callbacks invoked so far, in order, each <<name, argument>>
    b_result,       \* what the caller of the bracket observes, NoOutcome before
    \* ---- retry (control/retry.py)
    r_policy,       \* the RetryPolicy
    r_tape,         \* r_tape[k]: the Result the effect produces on its k-th execution
    r_pc,           \* per sugar function: "call", "await", "sleep", "done"
    r_attempt,      \* per sugar function: the loop variable `attempt`
    r_last,         \* per sugar function: the local `last`
    r_calls,        \* per sugar function: executions of the effect started
    r_inflight,     \* per sugar function: executions started and not finished
    r_sleeps,       \* per sugar function: asyncio.sleep calls made
    r_result,       \* per sugar function: the raw returned, NoRaw before
    \* ---- timeout (time/timeout.py)
    t_sugar,        \* "timeout" or "timeout_writer"
    t_seconds,      \* the `seconds` argument
    t_plan,         \* the inner effect: the durations of its suspensions, in order
    t_outcome,      \* the inner effect: how it ends after its last suspension
    t_pc,           \* position of run(): "start", "waiting", "expired", "done"
    t_clock,        \* event loop time since run() started
    t_inner,        \* inner coroutine: "created", "suspended", "finished",
                    \*   "cancelling", "cancelled"
    t_wake,         \* when the inner coroutine's current suspension ends
    t_effects,      \* side effects the inner effect has performed (one after each suspension)
    t_log,          \* log entries the inner effect has written so far
    t_expired,      \* whether the deadline fired
    t_result,       \* what the caller of timeout observes, NoOutcome before
    \* ---- race / race_ok (concurrency/race.py)
    rc_sugar,       \* "race", "race_w", "race_ok" or "race_ok_w"
    rc_policy,      \* the RaceOkPolicy (race_ok, race_ok_w)
    rc_n,           \* the number of effects passed in
    rc_pc,          \* position of run(): "start", "waiting", "done"
    rc_task,        \* per branch: "running", "done", "cancelling", "cancelled"
    rc_raw,         \* per branch: the raw its task completed with, NoRaw before
    rc_order,       \* the branches whose task completed, in completion order
    rc_seen,        \* how many completions the as_completed loop has consumed
    rc_first_error, \* the local first_error_raw
    rc_last_error,  \* the local last_error_raw
    rc_counter,     \* per branch: the side effect it performs when it completes
    rc_late,        \* branches that completed after run() had returned
    rc_result,      \* the raw run() returned, NoRaw before
    \* ---- rate_limit (concurrency/rate_limit.py)
    rl_args,        \* the arguments given to RateLimitPolicy(...); both wrappers get this policy
    rl_wrapper,     \* per wrapper: "none", "rejected" (ValueError) or "created"
    rl_bucket,      \* per wrapper: the _TokenBucket of its closure, NoBucket before
    rl_created_at,  \* per wrapper: time.monotonic() when rate_limit(...) was called
    rl_now,         \* time.monotonic(), in seconds
    rl_pc,          \* per caller: "idle", "sleep" (inside acquire) or "inner"
    rl_on,          \* per caller: the wrapper whose run() it is executing
    rl_wake,        \* per caller: when its asyncio.sleep(wait_time) is over
    rl_calls,       \* run() calls issued so far, over all wrappers
    rl_granted,     \* per wrapper: acquire() calls that returned = inner invocations started
    rl_last_start,  \* per wrapper: time.monotonic() at its latest inner invocation start
    rl_finished,    \* per wrapper: inner invocations that returned their raw
    \* ---- fallback / fallback_chain (control/fallback.py)
    f_sugar,        \* "fallback", "fallback_w", "fallback_chain" or "fallback_chain_w"
    f_n,            \* the number of effects passed in
    f_pc,           \* position of run(): "call", "await", "done"
    f_idx,          \* the effect the loop is at (1 = the first passed in)
    f_last,         \* the local `last`, NoRaw for None
    f_invoked,      \* the effects invoked so far, in order
    f_raws,         \* the raws these invocations produced, in order
    f_result,       \* what the caller observes, NoOutcome before
    \* ---- repeat_until / repeat_until_writer (control/repeat.py)
    ru_sugar,       \* "repeat_until" or "repeat_until_writer"
    ru_policy,      \* the RepeatPolicy
    ru_condition,   \* the predicate `condition`: the set of values it accepts
    ru_pc,          \* position of run(): "call", "await", "sleep", "done"
    ru_round,       \* the loop variable round_idx
    ru_calls,       \* executions of the effect started
    ru_raws,        \* the raws the executions produced, in order
    ru_sleeps,      \* asyncio.sleep calls made
    ru_result,      \* what the caller observes, NoOutcome before
    \* ---- ensure / reject (control/guard.py)
    g_inner,        \* the Result the inner effect produces
    g_log,          \* the log the inner effect writes (ensure_w, reject_w)
    g_p,            \* the predicate p: the set of values it holds for
    g_error,        \* the error factory: a function from values to errors
    g_pc,           \* per sugar function: "call", "await", "done"
    g_predicate_calls, \* per sugar function: evaluations of its predicate
    g_error_calls,  \* per sugar function: evaluations of the error factory
    g_result,       \* per sugar function: the raw returned, NoRaw before
    \* ---- validate / validate_w (collection/validate.py)
    v_sugar,        \* "validate" or "validate_w"
    v_n,            \* the number of effects passed in
    v_pc,           \* position of run(): "start", "gather", "done"
    v_task,         \* per effect: "created", "running", "done"
    v_raw,          \* per effect: the raw it completed with, NoRaw before
    v_order,        \* the effects in the order they completed
    v_result,       \* the raw run() returned, NoRaw before
    \* ---- batch / batch_w / traverse_par (concurrency/batch.py)
    ba_sugar,       \* "batch", "batch_w" or "traverse_par"
    ba_n,           \* len(items)
    ba_concurrency, \* the `concurrency` argument
    ba_pc,          \* position of run(): "start", "gather", "done"
    ba_task,        \* per item, its process() task: "none", "created", "waiting",
                    \*   "woken", "running", "done", "raised"
    ba_raws,        \* the local `raws`
    ba_value,       \* semaphore._value
    ba_waiters,     \* semaphore._waiters: the items whose task sits in acquire()
    ba_order,       \* the items in the order their handler effect finished
    ba_returned,    \* per item: the Result its handler effect returned, NoRaw before
    ba_result,      \* what the caller observes, NoOutcome before
    \* ---- parallel / zip_par / gather2 / gather3 and their _w forms
    \* ---- (concurrency/parallel.py, zip.py, gather.py)
    pa_sugar,       \* the sugar function called, one of ParSugars
    pa_n,           \* the number of effects passed in
    pa_pc,          \* position of run(): "start", "gather", "done"
    pa_task,        \* per effect: "created", "running", "done", "raised"
    pa_raw,         \* per effect: the raw it completed with, NoRaw before
    pa_order,       \* the effects in the order they ended
    pa_result,      \* what the caller observes, NoOutcome before
    \* ---- traverse / traverse_writer / fold / fold_w (collection/traverse.py, fold.py)
    sq_sugar,       \* "traverse", "traverse_writer", "fold" or "fold_w"
    sq_n,           \* len(items)
    sq_initial,     \* fold's `initial`
    sq_pc,          \* position of run(): "call", "await", "done"
    sq_idx,         \* the item the loop is at (1 = the first)
    sq_acc,         \* fold's local `acc`
    sq_invoked,     \* the handler calls made so far, in order: [acc, item]
    sq_raws,        \* the raws these calls produced, in order
    sq_result,      \* the raw run() returned, NoRaw before
    \* ---- Log (writer/log.py)
    lg_heap,        \* the Log objects made so far (a Log is a list): lg_heap[k] is
                    \*   the present content of the k-th object
    lg_last,        \* the last call: [op, self, other, result], objects by position
    \* ---- LazyCoroResultWriter.then / with_log / listen / censor (writer/monad.py)
    wm_op,          \* the method called: "then", "with_log", "listen" or "censor"
    wm_entries,     \* with_log's *entries
    wm_f,           \* censor's f, one of LogFunctions
    wm_pc,          \* position of wrapper(): "start", "self", "cont", "done"
    wm_self,        \* the WriterResult `await self()` gave, NoRaw before
    wm_f_calls,     \* then: the values the continuation f was called with, in order
    wm_next,        \* then: the WriterResult `await f(value)` gave, NoRaw before
    wm_result,      \* the WriterResult wrapper() returned, NoRaw before
    \* ---- Flow.compile (ast.py)
    fl_policy,      \* the RateLimitPolicy given to Flow.rate_limit
    fl_nodes,       \* the RateLimit nodes of the Flow's Expr, over its Base
    fl_heap,        \* the _TokenBucket objects made so far, by position
    fl_compiled,    \* per compile() call: whether it has been made
    fl_buckets,     \* per compiled effect: the bucket of each of its rate_limit
                    \*   wrappers, innermost first, as positions in fl_heap
    fl_pc,          \* per compiled effect: "idle", "sleep" (in an acquire), "base"
    fl_at,          \* per compiled effect: the wrapper its execution is at (0 = Base)
    fl_wake,        \* per compiled effect: when its asyncio.sleep is over
    fl_runs,        \* per compiled effect: executions started
    fl_base_runs,   \* executions of the Base effect started, by any compiled effect
    fl_now,         \* time.monotonic(), in seconds
    \* ---- construction: policy objects and combinator calls, before execution
    cs_combinator,  \* the combinator the caller is about to use
    cs_args,        \* what the caller passes to the policy's constructor
    cs_n,           \* the number of effects passed to the combinator
    cs_policy,      \* "none", "constructed", or "rejected" (the constructor raised)
    cs_effect,      \* "none", or "returned" (the combinator returned its effect),
                    \*   or "rejected" (the combinator raised)
    cs_pc,          \* run() of the returned effect: "idle", "running", "done"
    cs_started,     \* input effects run() has started
    cs_raised,      \* what run() raised
    \* ---- best_of / best_of_many
    bo_sugar,       \* which sugar built the effect
    bo_n,           \* n of best_of, len(candidates) of best_of_many
    bo_key,         \* the key function, as the number it gives each value
    bo_pc,          \* "start", "gather", "done"
    bo_task,        \* per candidate: "created", "running", "done", "raised"
    bo_raw,         \* per candidate: the Result its execution returned
    bo_order,       \* the candidates in the order they completed
    bo_result       \* what the execution of the effect returned or raised

bracketVars == <<b_variant, b_pc, b_acquire, b_use, b_release, b_pending, b_events, b_result>>
retryVars == <<r_policy, r_tape, r_pc, r_attempt, r_last, r_calls, r_inflight, r_sleeps, r_result>>
timeoutVars == <<t_sugar, t_seconds, t_plan, t_outcome, t_pc, t_clock, t_inner, t_wake,
                 t_effects, t_log, t_expired, t_result>>
raceVars == <<rc_sugar, rc_policy, rc_n, rc_pc, rc_task, rc_raw, rc_order, rc_seen,
              rc_first_error, rc_last_error, rc_counter, rc_late, rc_result>>
rateLimitVars == <<rl_args, rl_wrapper, rl_bucket, rl_created_at, rl_now, rl_pc, rl_on, rl_wake,
                   rl_calls, rl_granted, rl_last_start, rl_finished>>
fallbackVars == <<f_sugar, f_n, f_pc, f_idx, f_last, f_invoked, f_raws, f_result>>
repeatVars == <<ru_sugar, ru_policy, ru_condition, ru_pc, ru_round, ru_calls, ru_raws,
                ru_sleeps, ru_result>>
guardVars == <<g_inner, g_log, g_p, g_error, g_pc, g_predicate_calls, g_error_calls, g_result>>
validateVars == <<v_sugar, v_n, v_pc, v_task, v_raw, v_order, v_result>>
batchVars == <<ba_sugar, ba_n, ba_concurrency, ba_pc, ba_task, ba_raws, ba_value, ba_waiters,
               ba_order, ba_returned, ba_result>>
parVars == <<pa_sugar, pa_n, pa_pc, pa_task, pa_raw, pa_order, pa_result>>
seqVars == <<sq_sugar, sq_n, sq_initial, sq_pc, sq_idx, sq_acc, sq_invoked, sq_raws, sq_result>>
logVars == <<lg_heap, lg_last>>
writerVars == <<wm_op, wm_entries, wm_f, wm_pc, wm_self, wm_f_calls, wm_next, wm_result>>
flowVars == <<fl_policy, fl_nodes, fl_heap, fl_compiled, fl_buckets, fl_pc, fl_at, fl_wake,
              fl_runs, fl_base_runs, fl_now>>
constructVars == <<cs_combinator, cs_args, cs_n, cs_policy, cs_effect, cs_pc, cs_started,
                   cs_raised>>
bestVars == <<bo_sugar, bo_n, bo_key, bo_pc, bo_task, bo_raw, bo_order, bo_result>>
vars == <<bracketVars, retryVars, timeoutVars, raceVars, rateLimitVars, fallbackVars,
          repeatVars, guardVars, validateVars, batchVars, parVars, seqVars, logVars,
          writerVars, flowVars, constructVars, bestVars>>

(***************************************************************************)
(* Values shared by the combinators                                        *)
(***************************************************************************)
Values == {"v1", "v2"}
Errors == {"e1", "e2"}
Exceptions == {"x1"}

Ok(v) == [tag |-> "Ok", val |-> v]
Error(e) == [tag |-> "Error", val |-> e]
Results == {Ok(v) : v \in Values} \cup {Error(e) : e \in Errors}

WriterResult(result, log) == [result |-> result, log |-> log]

\* "nothing yet" markers, of the same shape as the values they stand in for
NoRaw == [tag |-> "None", val |-> "None"]
NoOutcome == [kind |-> "none", val |-> NoRaw]
Return(raw) == [kind |-> "return", val |-> raw]
Exc(x) == [tag |-> "Exception", val |-> x]
Raise(x) == [kind |-> "raise", val |-> Exc(x)]

identity(x) == x
extract_writer_result(wr) == wr.result

\* Log.combine: concatenation
combine(l1, l2) == l1 \o l2

(***************************************************************************)
(* bracket / bracket_w                                                     *)
(***************************************************************************)
BracketVariants == {"bracket", "bracket_w"}

\* the logs a LazyCoroResultWriter callback may produce
AcquireLogs == {<<>>, <<"acq">>}
UseLogs == {<<>>, <<"use">>}

\* the raws `acquire()` can produce for a variant
AcquireRaws(variant) ==
    IF variant = "bracket"
    THEN Results
    ELSE {WriterResult(r, l) : r \in Results, l \in AcquireLogs}

\* the ways `use(resource)()` can end for a variant
UseOutcomes(variant) ==
    IF variant = "bracket"
    THEN {Return(r) : r \in Results} \cup {Raise(x) : x \in Exceptions}
    ELSE {Return(WriterResult(r, l)) : r \in Results, l \in UseLogs}
            \cup {Raise(x) : x \in Exceptions}

\* extract_acquire: bracket passes `extract` (identity); bracket_w reads .result
extract_acquire(variant, raw) ==
    IF variant = "bracket" THEN identity(raw) ELSE extract_writer_result(raw)

\* get_resource: r.unwrap() in bracket, the Ok(resource) pattern in bracket_w
get_resource(variant, raw) == extract_acquire(variant, raw).val

\* the Error(e) arm of the match on the acquire result
bracket_acquire_failed(variant, acquire_raw) ==
    IF variant = "bracket"
    THEN Error(extract_acquire(variant, acquire_raw).val)
    ELSE WriterResult(Error(acquire_raw.result.val), acquire_raw.log)

\* the try block: what it is about to hand out when `use` has ended
bracket_try(variant, acquire_raw, use_outcome) ==
    IF use_outcome.kind = "raise"
    THEN use_outcome
    ELSE IF variant = "bracket"
         THEN Return(use_outcome.val)
         ELSE Return(WriterResult(use_outcome.val.result,
                                  combine(acquire_raw.log, use_outcome.val.log)))

\* a release that raises, were the `except Exception: pass` missing
bracket_finally_unguarded(pending, release_outcome) ==
    IF release_outcome = "raise" THEN Raise("release_failed") ELSE pending

\* the finally block: `try: await release(resource) except Exception: pass`
bracket_finally(pending, release_outcome) ==
    pending

BracketInit ==
    /\ b_variant \in BracketVariants
    /\ b_pc = "acquire"
    /\ b_acquire = NoRaw
    /\ b_use = NoOutcome
    /\ b_release = "none"
    /\ b_pending = NoOutcome
    /\ b_events = <<>>
    /\ b_result = NoOutcome

BracketIdle ==
    /\ b_variant = "bracket"
    /\ b_pc = "idle"
    /\ b_acquire = NoRaw
    /\ b_use = NoOutcome
    /\ b_release = "none"
    /\ b_pending = NoOutcome
    /\ b_events = <<>>
    /\ b_result = NoOutcome

\* acquire_raw = await acquire(); match extract_acquire(acquire_raw)
BracketAcquire ==
    /\ b_pc = "acquire"
    /\ \E raw \in AcquireRaws(b_variant) :
        /\ b_acquire' = raw
        /\ b_events' = Append(b_events, <<"acquire", "-">>)
        /\ IF extract_acquire(b_variant, raw).tag = "Error"
           THEN /\ b_pc' = "done"
                /\ b_result' = Return(bracket_acquire_failed(b_variant, raw))
           ELSE /\ b_pc' = "use"
                /\ b_result' = b_result
    /\ UNCHANGED <<b_variant, b_use, b_release, b_pending>>

\* use(resource)() is called (inside try) and suspends
BracketUseStart ==
    /\ b_pc = "use"
    /\ b_events' = Append(b_events, <<"use", get_resource(b_variant, b_acquire)>>)
    /\ b_pc' = "using"
    /\ UNCHANGED <<b_variant, b_acquire, b_use, b_release, b_pending, b_result>>

\* use ends, with release after the try block instead of in a finally: an
\* exception raised by use leaves run() at once
BracketUseEnd_no_finally ==
    /\ b_pc = "using"
    /\ \E out \in UseOutcomes(b_variant) :
        /\ b_use' = out
        /\ b_pending' = bracket_try(b_variant, b_acquire, out)
        /\ IF out.kind = "raise"
           THEN b_pc' = "done" /\ b_result' = out
           ELSE b_pc' = "release" /\ b_result' = b_result
    /\ b_events' = Append(b_events, <<"use_end", get_resource(b_variant, b_acquire)>>)
    /\ UNCHANGED <<b_variant, b_acquire, b_release>>

\* use_raw = await use(resource)() ends: it returns a raw or raises
BracketUseEnd ==
    /\ b_pc = "using"
    /\ \E out \in UseOutcomes(b_variant) :
        /\ b_use' = out
        /\ b_pending' = bracket_try(b_variant, b_acquire, out)
    /\ b_events' = Append(b_events, <<"use_end", get_resource(b_variant, b_acquire)>>)
    /\ b_pc' = "release"
    /\ UNCHANGED <<b_variant, b_acquire, b_release, b_result>>

\* finally: await release(resource), then the pending return or exception
BracketRelease ==
    /\ b_pc = "release"
    /\ \E rel \in {"return", "raise"} :
        /\ b_release' = rel
        /\ b_result' = bracket_finally(b_pending, rel)
    /\ b_events' = Append(b_events, <<"release", get_resource(b_variant, b_acquire)>>)
    /\ b_pc' = "done"
    /\ UNCHANGED <<b_variant, b_acquire, b_use, b_pending>>

(***************************************************************************)
(* bracket_on_error / bracket_on_error_w                                   *)
(***************************************************************************)
\* "Like bracket, but only releases on error": the same variables, with
\* run() of bracket_on_error and bracket_on_error_w.
BracketOnErrorVariants == {"bracket_on_error", "bracket_on_error_w"}

\* the bracket variant whose raws (Result or WriterResult) a variant works on
like_bracket(variant) ==
    IF variant = "bracket_on_error" THEN "bracket" ELSE "bracket_w"

\* what run() returns from the use raw: Ok(value) / Error(e), for
\* bracket_on_error_w paired with merged_log
on_error_return(variant, acquire_raw, use_raw) ==
    IF variant = "bracket_on_error"
    THEN [tag |-> use_raw.tag, val |-> use_raw.val]
    ELSE WriterResult([tag |-> use_raw.result.tag, val |-> use_raw.result.val],
                      combine(acquire_raw.log, use_raw.log))

\* release whatever use returned
on_error_releases_always(use_result) ==
    TRUE

\* the arm of `match use_result` that calls release: case Error(e)
on_error_releases(use_result) ==
    use_result.tag = "Error"

\* try: await release(resource) / except Exception: pass / return Error(e)
on_error_except(pending, release_outcome) ==
    pending

BracketOnErrorInit ==
    /\ b_variant \in BracketOnErrorVariants
    /\ b_pc = "acquire"
    /\ b_acquire = NoRaw
    /\ b_use = NoOutcome
    /\ b_release = "none"
    /\ b_pending = NoOutcome
    /\ b_events = <<>>
    /\ b_result = NoOutcome

\* acquire_result = await acquire(); case Error(e): return Error(e)
BracketOnErrorAcquire ==
    /\ b_pc = "acquire"
    /\ \E raw \in AcquireRaws(like_bracket(b_variant)) :
        /\ b_acquire' = raw
        /\ b_events' = Append(b_events, <<"acquire", "-">>)
        /\ IF extract_acquire(like_bracket(b_variant), raw).tag = "Error"
           THEN /\ b_pc' = "done"
                /\ b_result' = Return(bracket_acquire_failed(like_bracket(b_variant), raw))
           ELSE /\ b_pc' = "use"
                /\ b_result' = b_result
    /\ UNCHANGED <<b_variant, b_use, b_release, b_pending>>

\* case Ok(resource): use(resource)() is called and suspends
BracketOnErrorUseStart ==
    /\ b_pc = "use"
    /\ b_events' = Append(b_events,
                          <<"use", get_resource(like_bracket(b_variant), b_acquire)>>)
    /\ b_pc' = "using"
    /\ UNCHANGED <<b_variant, b_acquire, b_use, b_release, b_pending, b_result>>

\* use_result = await use(resource)() ends.  It is not inside a try: an
\* exception leaves run() at once.  Ok(value) is returned at once; Error(e)
\* goes on to release.
BracketOnErrorUseEnd ==
    /\ b_pc = "using"
    /\ \E out \in UseOutcomes(like_bracket(b_variant)) :
        /\ b_use' = out
        /\ IF out.kind = "raise"
           THEN /\ b_pc' = "done"
                /\ b_result' = out
                /\ b_pending' = b_pending
           ELSE LET ret == Return(on_error_return(b_variant, b_acquire, out.val))
                IN IF on_error_releases(extract_acquire(like_bracket(b_variant), out.val))
                   THEN /\ b_pc' = "release"
                        /\ b_pending' = ret
                        /\ b_result' = b_result
                   ELSE /\ b_pc' = "done"
                        /\ b_result' = ret
                        /\ b_pending' = b_pending
    /\ b_events' = Append(b_events,
                          <<"use_end", get_resource(like_bracket(b_variant), b_acquire)>>)
    /\ UNCHANGED <<b_variant, b_acquire, b_release>>

\* await release(resource) returns or raises an Exception; then return Error(e)
BracketOnErrorRelease ==
    /\ b_pc = "release"
    /\ \E rel \in {"return", "raise"} :
        /\ b_release' = rel
        /\ b_result' = on_error_except(b_pending, rel)
    /\ b_events' = Append(b_events,
                          <<"release", get_resource(like_bracket(b_variant), b_acquire)>>)
    /\ b_pc' = "done"
    /\ UNCHANGED <<b_variant, b_acquire, b_use, b_pending>>

(***************************************************************************)
(* retry / retry_w                                                         *)
(***************************************************************************)
\* The two sugar functions over retryM.  Both run against the same effect:
\* its k-th execution yields r_tape[k] to retry and the same Result paired
\* with that execution's own log to retry_w.
RetrySugars == {"retry", "retry_w"}

MaxTimes == 3

\* retry_on: None, or a predicate given by the set of errors it accepts
NoPredicate == [given |-> FALSE, accepts |-> {}]
Predicate(S) == [given |-> TRUE, accepts |-> S]
RetryOns == {NoPredicate} \cup {Predicate(S) : S \in SUBSET Errors}

\* _fixed_backoff(delay)
fixed_backoff(delay) == [kind |-> "fixed", initial |-> delay, multiplier |-> 1, max_delay |-> delay]
\* _exponential_backoff(initial, multiplier, max_delay)
exponential_backoff(initial, multiplier, max_delay) ==
    [kind |-> "exponential", initial |-> initial, multiplier |-> multiplier, max_delay |-> max_delay]

Min(a, b) == IF a <= b THEN a ELSE b

\* strategy(attempt, error) of a BackoffStrategy
backoff_strategy(backoff, attempt, error) ==
    IF backoff.kind = "fixed"
    THEN backoff.initial
    ELSE Min(backoff.initial * (backoff.multiplier ^ attempt), backoff.max_delay)

Backoffs == {fixed_backoff(0), fixed_backoff(1), exponential_backoff(1, 2, 3)}

\* RetryPolicy: __post_init__ rejects times < 1
RetryPolicy(times, backoff, retry_on) ==
    [times |-> times, backoff |-> backoff, retry_on |-> retry_on]
RetryPolicies ==
    {RetryPolicy(t, b, p) : t \in 1..MaxTimes, b \in Backoffs, p \in RetryOns}

\* _should_retry with the early stop on the predicate left out
_should_retry_ignoring_predicate(policy, attempt, error) ==
    ~(attempt + 1 >= policy.times)

\* _should_retry giving up one attempt early
_should_retry_one_less(policy, attempt, error) ==
    IF attempt + 2 >= policy.times
    THEN FALSE
    ELSE IF policy.retry_on.given /\ error \notin policy.retry_on.accepts
         THEN FALSE
         ELSE TRUE

_should_retry(policy, attempt, error) ==
    IF attempt + 1 >= policy.times
    THEN FALSE
    ELSE IF policy.retry_on.given /\ error \notin policy.retry_on.accepts
         THEN FALSE
         ELSE TRUE

_delay_seconds(policy, attempt, error) ==
    backoff_strategy(policy.backoff, attempt, error)

\* the log the effect writes on its k-th execution
AttemptLog(k) == <<k>>

\* what `await interp()` yields on the k-th execution (k from 1)
retry_raw(sugar, k) ==
    IF sugar = "retry" THEN r_tape[k] ELSE WriterResult(r_tape[k], AttemptLog(k))

\* extract: identity for retry, extract_writer_result for retry_w
retry_extract(sugar, raw) ==
    IF sugar = "retry" THEN identity(raw) ELSE extract_writer_result(raw)

\* `return raw` handing back the log of every execution so far, merged
retry_return_merged_logs(sugar, raw) ==
    IF sugar = "retry"
    THEN raw
    ELSE LET RECURSIVE logs(_)
             logs(k) == IF k = 0 THEN <<>> ELSE combine(logs(k - 1), AttemptLog(k))
         IN WriterResult(raw.result, logs(r_calls[sugar]))

\* `return raw` / `return last`: the raw of one execution, as the effect produced it
retry_return(sugar, raw) ==
    raw

RetryInit ==
    /\ r_policy \in RetryPolicies
    /\ r_tape = <<>>
    /\ r_pc = [s \in RetrySugars |-> "call"]
    /\ r_attempt = [s \in RetrySugars |-> 0]
    /\ r_last = [s \in RetrySugars |-> NoRaw]
    /\ r_calls = [s \in RetrySugars |-> 0]
    /\ r_inflight = [s \in RetrySugars |-> 0]
    /\ r_sleeps = [s \in RetrySugars |-> 0]
    /\ r_result = [s \in RetrySugars |-> NoRaw]

RetryIdle ==
    /\ r_policy = RetryPolicy(1, fixed_backoff(0), NoPredicate)
    /\ r_tape = <<>>
    /\ r_pc = [s \in RetrySugars |-> "idle"]
    /\ r_attempt = [s \in RetrySugars |-> 0]
    /\ r_last = [s \in RetrySugars |-> NoRaw]
    /\ r_calls = [s \in RetrySugars |-> 0]
    /\ r_inflight = [s \in RetrySugars |-> 0]
    /\ r_sleeps = [s \in RetrySugars |-> 0]
    /\ r_result = [s \in RetrySugars |-> NoRaw]

\* the loop running over range(policy.times - 1)
retry_next_iteration_short(s) ==
    IF r_attempt[s] + 1 < r_policy.times - 1
    THEN /\ r_attempt' = [r_attempt EXCEPT ![s] = @ + 1]
         /\ r_pc' = [r_pc EXCEPT ![s] = "call"]
         /\ r_result' = r_result
    ELSE /\ r_attempt' = r_attempt
         /\ r_pc' = [r_pc EXCEPT ![s] = "done"]
         /\ r_result' = [r_result EXCEPT ![s] = retry_return(s, r_last'[s])]

\* `for attempt in range(policy.times)` moves on to the next attempt; past the
\* last one the loop ends and run() returns `last`
retry_next_iteration(s) ==
    IF r_attempt[s] + 1 < r_policy.times
    THEN /\ r_attempt' = [r_attempt EXCEPT ![s] = @ + 1]
         /\ r_pc' = [r_pc EXCEPT ![s] = "call"]
         /\ r_result' = r_result
    ELSE /\ r_attempt' = r_attempt
         /\ r_pc' = [r_pc EXCEPT ![s] = "done"]
         /\ r_result' = [r_result EXCEPT ![s] = retry_return(s, r_last'[s])]

\* raw = await interp(): the effect is executed once more.  The effect is
\* re-executed on every call; the first of the two sugars to reach its k-th
\* execution draws what that execution yields.
RetryCall(s) ==
    /\ r_pc[s] = "call"
    /\ r_calls' = [r_calls EXCEPT ![s] = @ + 1]
    /\ r_inflight' = [r_inflight EXCEPT ![s] = @ + 1]
    /\ IF Len(r_tape) < r_calls'[s]
       THEN \E res \in Results : r_tape' = Append(r_tape, res)
       ELSE r_tape' = r_tape
    /\ r_pc' = [r_pc EXCEPT ![s] = "await"]
    /\ UNCHANGED <<r_policy, r_attempt, r_last, r_sleeps, r_result>>

\* interp() completes: match extract(raw), _should_retry, _delay_seconds
RetryResume(s) ==
    /\ r_pc[s] = "await"
    /\ r_inflight' = [r_inflight EXCEPT ![s] = @ - 1]
    /\ LET raw == retry_raw(s, r_calls[s])
           result == retry_extract(s, raw)
       IN IF result.tag = "Ok"
          THEN /\ r_result' = [r_result EXCEPT ![s] = retry_return(s, raw)]
               /\ r_pc' = [r_pc EXCEPT ![s] = "done"]
               /\ UNCHANGED <<r_last, r_attempt, r_sleeps>>
          ELSE /\ r_last' = [r_last EXCEPT ![s] = raw]
               /\ IF ~_should_retry(r_policy, r_attempt[s], result.val)
                  THEN /\ r_result' = [r_result EXCEPT ![s] = retry_return(s, raw)]
                       /\ r_pc' = [r_pc EXCEPT ![s] = "done"]
                       /\ UNCHANGED <<r_attempt, r_sleeps>>
                  ELSE IF _delay_seconds(r_policy, r_attempt[s], result.val) > 0
                       THEN /\ r_sleeps' = [r_sleeps EXCEPT ![s] = @ + 1]
                            /\ r_pc' = [r_pc EXCEPT ![s] = "sleep"]
                            /\ UNCHANGED <<r_attempt, r_result>>
                       ELSE /\ retry_next_iteration(s)
                            /\ UNCHANGED r_sleeps
    /\ UNCHANGED <<r_policy, r_tape, r_calls>>

\* await asyncio.sleep(delay) returns
RetryWake(s) ==
    /\ r_pc[s] = "sleep"
    /\ retry_next_iteration(s)
    /\ UNCHANGED <<r_policy, r_tape, r_last, r_calls, r_inflight, r_sleeps>>

(***************************************************************************)
(* timeout / timeout_writer                                                *)
(***************************************************************************)
\* The inner effect is a coroutine that suspends Len(t_plan) times; after
\* each suspension it performs a side effect and writes a log entry, and
\* after the last one it ends as t_outcome says.  asyncio.wait_for runs it
\* against a deadline `seconds` after the start: when the deadline fires the
\* coroutine is cancelled at its pending suspension, and wait_for raises
\* asyncio.TimeoutError once the coroutine has unwound.
TimeoutSugars == {"timeout", "timeout_writer"}

MaxSeconds == 2
MaxSuspensions == 2
MaxWait == 2

RECURSIVE SeqsUpTo(_, _)
\* the sequences over S of length at most n
SeqsUpTo(S, n) ==
    IF n = 0 THEN {<<>>}
    ELSE LET shorter == SeqsUpTo(S, n - 1)
         IN shorter \cup {Append(q, x) : q \in {r \in shorter : Len(r) = n - 1}, x \in S}

TimeoutPlans == SeqsUpTo(0..MaxWait, MaxSuspensions)

\* how the inner effect can end: with a Result, or by raising (an
\* asyncio.TimeoutError of its own, or anything else)
InnerEndings ==
    {Return(r) : r \in Results} \cup {Raise("asyncio.TimeoutError"), Raise("x1")}

\* TimeoutError(seconds) of _errors.py
TimeoutError(seconds) == [type |-> "TimeoutError", seconds |-> seconds]

\* the raw the inner effect returns: for timeout_writer the Result with the
\* log it has written
timeout_raw_in(sugar, result, log) ==
    IF sugar = "timeout" THEN result ELSE WriterResult(result, log)

\* widen: the same raw, in the wider error type
widen(sugar, raw_in) ==
    IF sugar = "timeout"
    THEN (IF raw_in.tag = "Ok" THEN Ok(raw_in.val) ELSE Error(raw_in.val))
    ELSE (IF raw_in.result.tag = "Ok"
          THEN WriterResult(Ok(raw_in.result.val), raw_in.log)
          ELSE WriterResult(Error(raw_in.result.val), raw_in.log))

\* on_timeout handing back what the inner effect had logged before the deadline
on_timeout_keeping_log(sugar, seconds, log) ==
    IF sugar = "timeout"
    THEN Error(TimeoutError(seconds))
    ELSE WriterResult(Error(TimeoutError(seconds)), log)

\* on_timeout: Error(TimeoutError(seconds)), for timeout_writer with Log()
on_timeout(sugar, seconds, log) ==
    IF sugar = "timeout"
    THEN Error(TimeoutError(seconds))
    ELSE WriterResult(Error(TimeoutError(seconds)), <<>>)

TimeoutInit ==
    /\ t_sugar \in TimeoutSugars
    /\ t_seconds \in 0..MaxSeconds
    /\ t_plan \in TimeoutPlans
    /\ t_outcome \in InnerEndings
    /\ t_pc = "start"
    /\ t_clock = 0
    /\ t_inner = "created"
    /\ t_wake = 0
    /\ t_effects = 0
    /\ t_log = <<>>
    /\ t_expired = FALSE
    /\ t_result = NoOutcome

TimeoutIdle ==
    /\ t_sugar = "timeout"
    /\ t_seconds = 0
    /\ t_plan = <<>>
    /\ t_outcome = NoOutcome
    /\ t_pc = "idle"
    /\ t_clock = 0
    /\ t_inner = "created"
    /\ t_wake = 0
    /\ t_effects = 0
    /\ t_log = <<>>
    /\ t_expired = FALSE
    /\ t_result = NoOutcome

\* run() awaits asyncio.wait_for(interp(), timeout=seconds).  With
\* seconds <= 0 wait_for cancels the coroutine before it runs; otherwise the
\* coroutine runs up to its first suspension, or to its end if it has none.
TimeoutStart ==
    /\ t_pc = "start"
    /\ IF t_seconds <= 0
       THEN /\ t_inner' = "cancelled"
            /\ t_expired' = TRUE
            /\ t_pc' = "expired"
            /\ t_wake' = t_wake
       ELSE /\ t_expired' = t_expired
            /\ t_pc' = "waiting"
            /\ IF t_plan = <<>>
               THEN t_inner' = "finished" /\ t_wake' = t_wake
               ELSE t_inner' = "suspended" /\ t_wake' = t_clock + t_plan[1]
    /\ UNCHANGED <<t_sugar, t_seconds, t_plan, t_outcome, t_clock, t_effects, t_log, t_result>>

\* time passes while nothing is due
TimeoutTick ==
    /\ t_inner = "suspended"
    /\ t_clock < t_wake
    /\ t_pc = "waiting" => t_clock < t_seconds
    /\ t_clock' = t_clock + 1
    /\ UNCHANGED <<t_sugar, t_seconds, t_plan, t_outcome, t_pc, t_inner, t_wake, t_effects,
                   t_log, t_expired, t_result>>

\* the inner coroutine's suspension ends: it performs the side effect that
\* follows, writes a log entry, and suspends again or ends
TimeoutInnerResume ==
    /\ t_inner = "suspended"
    /\ t_clock >= t_wake
    /\ t_effects' = t_effects + 1
    /\ t_log' = Append(t_log, t_effects + 1)
    /\ IF t_effects + 1 < Len(t_plan)
       THEN t_inner' = "suspended" /\ t_wake' = t_clock + t_plan[t_effects + 2]
       ELSE t_inner' = "finished" /\ t_wake' = t_wake
    /\ UNCHANGED <<t_sugar, t_seconds, t_plan, t_outcome, t_pc, t_clock, t_expired, t_result>>

\* the deadline fires and run() returns on_timeout() while the inner
\* coroutine is left as it is (no cancellation)
TimeoutDeadline_no_cancel ==
    /\ t_pc = "waiting"
    /\ t_inner = "suspended"
    /\ t_clock >= t_seconds
    /\ t_expired' = TRUE
    /\ t_pc' = "done"
    /\ t_result' = Return(on_timeout(t_sugar, t_seconds, t_log))
    /\ UNCHANGED <<t_sugar, t_seconds, t_plan, t_outcome, t_clock, t_inner, t_wake, t_effects, t_log>>

\* the deadline fires before the inner coroutine has ended: wait_for cancels it
TimeoutDeadline ==
    /\ t_pc = "waiting"
    /\ t_inner = "suspended"
    /\ t_clock >= t_seconds
    /\ t_expired' = TRUE
    /\ t_inner' = "cancelling"
    /\ t_pc' = "expired"
    /\ UNCHANGED <<t_sugar, t_seconds, t_plan, t_outcome, t_clock, t_wake, t_effects, t_log,
                   t_result>>

\* CancelledError is thrown into the inner coroutine at its suspension; it unwinds
TimeoutInnerCancelled ==
    /\ t_inner = "cancelling"
    /\ t_inner' = "cancelled"
    /\ UNCHANGED <<t_sugar, t_seconds, t_plan, t_outcome, t_pc, t_clock, t_wake, t_effects,
                   t_log, t_expired, t_result>>

\* wait_for raises asyncio.TimeoutError: `except asyncio.TimeoutError: return on_timeout()`
TimeoutExpiredReturn ==
    /\ t_pc = "expired"
    /\ t_inner = "cancelled"
    /\ t_result' = Return(on_timeout(t_sugar, t_seconds, t_log))
    /\ t_pc' = "done"
    /\ UNCHANGED <<t_sugar, t_seconds, t_plan, t_outcome, t_clock, t_inner, t_wake, t_effects,
                   t_log, t_expired>>

\* wait_for hands over how the inner coroutine ended: `return widen(raw_in)`,
\* the except clause for an asyncio.TimeoutError, any other exception propagating
TimeoutInnerDone ==
    /\ t_pc = "waiting"
    /\ t_inner = "finished"
    /\ t_result' =
         IF t_outcome.kind = "return"
         THEN Return(widen(t_sugar, timeout_raw_in(t_sugar, t_outcome.val, t_log)))
         ELSE IF t_outcome = Raise("asyncio.TimeoutError")
              THEN Return(on_timeout(t_sugar, t_seconds, t_log))
              ELSE t_outcome
    /\ t_pc' = "done"
    /\ UNCHANGED <<t_sugar, t_seconds, t_plan, t_outcome, t_clock, t_inner, t_wake, t_effects,
                   t_log, t_expired>>

(***************************************************************************)
(* race / race_w / race_ok / race_ok_w                                     *)
(***************************************************************************)
\* Every effect becomes a task (asyncio.create_task).  A task completes at a
\* moment of its own with Ok or Error; branch i yields Ok(i) or Error(i), so
\* that the raws of different branches differ, and for the writer sugars the
\* log <<i>>.  A task whose cancellation was requested never completes: it
\* ends cancelled the next time the loop runs it.
RaceSugars == {"race", "race_w", "race_ok", "race_ok_w"}

MaxBranches == 3

Branches == 1..rc_n

RaceOkPolicy(cancel_pending, error_strategy) ==
    [cancel_pending |-> cancel_pending, error_strategy |-> error_strategy]
RaceOkPolicies == {RaceOkPolicy(c, e) : c \in BOOLEAN, e \in {"first", "last"}}

IsRaceOk == rc_sugar \in {"race_ok", "race_ok_w"}

\* the raw branch i completes with
race_raw(sugar, i, tag) ==
    IF sugar \in {"race", "race_ok"}
    THEN [tag |-> tag, val |-> i]
    ELSE WriterResult([tag |-> tag, val |-> i], <<i>>)

\* extract: identity for race_ok, extract_writer_result for race_ok_w
race_extract(sugar, raw) ==
    IF sugar \in {"race", "race_ok"} THEN identity(raw) ELSE extract_writer_result(raw)

\* the cancellation left out: every task keeps running
cancel_not_done_skipped(task, S) ==
    task

\* t.cancel() on every task of S that is not done
cancel_not_done(task, S) ==
    [i \in DOMAIN task |-> IF i \in S /\ task[i] = "running" THEN "cancelling" ELSE task[i]]

\* the error raw chosen with the strategy ignored: always the first
race_ok_err_raw_always_first(policy, first_error_raw, last_error_raw) ==
    first_error_raw

\* err_raw = first_error_raw if policy.error_strategy == "first" else last_error_raw
race_ok_err_raw(policy, first_error_raw, last_error_raw) ==
    IF policy.error_strategy = "first" THEN first_error_raw ELSE last_error_raw

RaceInit ==
    /\ rc_sugar \in RaceSugars
    /\ rc_policy \in (IF IsRaceOk THEN RaceOkPolicies ELSE {RaceOkPolicy(TRUE, "last")})
    /\ rc_n \in 1..MaxBranches
    /\ rc_pc = "start"
    /\ rc_task = [i \in Branches |-> "created"]
    /\ rc_raw = [i \in Branches |-> NoRaw]
    /\ rc_order = <<>>
    /\ rc_seen = 0
    /\ rc_first_error = NoRaw
    /\ rc_last_error = NoRaw
    /\ rc_counter = [i \in Branches |-> 0]
    /\ rc_late = {}
    /\ rc_result = NoRaw

RaceIdle ==
    /\ rc_sugar = "race"
    /\ rc_policy = RaceOkPolicy(TRUE, "last")
    /\ rc_n = 0
    /\ rc_pc = "idle"
    /\ rc_task = <<>>
    /\ rc_raw = <<>>
    /\ rc_order = <<>>
    /\ rc_seen = 0
    /\ rc_first_error = NoRaw
    /\ rc_last_error = NoRaw
    /\ rc_counter = <<>>
    /\ rc_late = {}
    /\ rc_result = NoRaw

\* tasks = [asyncio.create_task(i()) for i in interps]; run() then waits
RaceStart ==
    /\ rc_pc = "start"
    /\ rc_task' = [i \in Branches |-> "running"]
    /\ rc_pc' = "waiting"
    /\ UNCHANGED <<rc_sugar, rc_policy, rc_n, rc_raw, rc_order, rc_seen, rc_first_error,
                   rc_last_error, rc_counter, rc_late, rc_result>>

\* the task of branch i runs to its end: it performs its side effect and
\* completes with a raw
RaceBranchComplete(i) ==
    /\ rc_task[i] = "running"
    /\ \E tag \in {"Ok", "Error"} : rc_raw' = [rc_raw EXCEPT ![i] = race_raw(rc_sugar, i, tag)]
    /\ rc_task' = [rc_task EXCEPT ![i] = "done"]
    /\ rc_order' = Append(rc_order, i)
    /\ rc_counter' = [rc_counter EXCEPT ![i] = @ + 1]
    /\ rc_late' = IF rc_pc = "done" THEN rc_late \cup {i} ELSE rc_late
    /\ UNCHANGED <<rc_sugar, rc_policy, rc_n, rc_pc, rc_seen, rc_first_error, rc_last_error,
                   rc_result>>

\* the loop runs a task whose cancellation was requested: CancelledError ends it
RaceBranchCancelled(i) ==
    /\ rc_task[i] = "cancelling"
    /\ rc_task' = [rc_task EXCEPT ![i] = "cancelled"]
    /\ UNCHANGED <<rc_sugar, rc_policy, rc_n, rc_pc, rc_raw, rc_order, rc_seen, rc_first_error,
                   rc_last_error, rc_counter, rc_late, rc_result>>

\* raceM.run resumes from asyncio.wait(tasks, return_when=FIRST_COMPLETED)
\* once a task is done; `done` holds every task that is done by then (more
\* than one when others completed before run() was scheduled again), and
\* next(iter(done)) is whichever the set yields first
RaceWake ==
    /\ ~IsRaceOk
    /\ rc_pc = "waiting"
    /\ LET done == {i \in Branches : rc_task[i] = "done"}
           pending == Branches \ done
       IN /\ done # {}
          /\ \E first_done \in done : rc_result' = rc_raw[first_done]
          /\ rc_task' = cancel_not_done(cancel_not_done(rc_task, pending), Branches)
    /\ rc_pc' = "done"
    /\ UNCHANGED <<rc_sugar, rc_policy, rc_n, rc_raw, rc_order, rc_seen, rc_first_error,
                   rc_last_error, rc_counter, rc_late>>

\* race_okM.run takes the next future of asyncio.as_completed(tasks): the
\* tasks in the order they completed
RaceOkStep ==
    /\ IsRaceOk
    /\ rc_pc = "waiting"
    /\ rc_seen < Len(rc_order)
    /\ LET raw == rc_raw[rc_order[rc_seen + 1]]
           result == race_extract(rc_sugar, raw)
           first_error_raw == IF rc_first_error = NoRaw THEN raw ELSE rc_first_error
           err_raw == race_ok_err_raw(rc_policy, first_error_raw, raw)
       IN IF result.tag = "Ok"
          THEN /\ rc_result' = raw
               /\ rc_pc' = "done"
               /\ rc_task' = IF rc_policy.cancel_pending
                             THEN cancel_not_done(cancel_not_done(rc_task, Branches), Branches)
                             ELSE rc_task
               /\ rc_seen' = rc_seen + 1
               /\ UNCHANGED <<rc_first_error, rc_last_error>>
          ELSE /\ rc_first_error' = first_error_raw
               /\ rc_last_error' = raw
               /\ rc_seen' = rc_seen + 1
               /\ IF rc_seen + 1 = rc_n
                  THEN /\ rc_result' = err_raw
                       /\ rc_pc' = "done"
                       /\ rc_task' = IF rc_policy.cancel_pending
                                     THEN cancel_not_done(rc_task, Branches)
                                     ELSE rc_task
                  ELSE UNCHANGED <<rc_result, rc_pc, rc_task>>
    /\ UNCHANGED <<rc_sugar, rc_policy, rc_n, rc_raw, rc_order, rc_counter, rc_late>>

(***************************************************************************)
(* rate_limit / rate_limit_w                                               *)
(***************************************************************************)
\* time.monotonic() is read at whole seconds.  Token amounts are floats in
\* the code; here they are counted in parts, PartsPerToken parts to a token,
\* and max_per_second is given in parts per second, so that rates below one
\* token per second and fractional token amounts are represented exactly.
PartsPerToken == 2
MaxRate == 3
MaxBurst == 2
MaxClock == 3
MaxCalls == 3

Wrappers == {"w1", "w2"}
Callers == {"c1", "c2"}

\* burst: int | None
None == [given |-> FALSE, val |-> 0]
Some(b) == [given |-> TRUE, val |-> b]

\* what a caller may pass to RateLimitPolicy(max_per_second, burst)
RateLimitPolicyArgs ==
    [max_per_second : 0..MaxRate, burst : {None} \cup {Some(b) : b \in 0..MaxBurst}]

\* RateLimitPolicy.__post_init__: FALSE where it raises ValueError
RateLimitPolicy_post_init(policy) ==
    /\ ~(policy.max_per_second <= 0)
    /\ ~(policy.burst.given /\ policy.burst.val < 1)

\* int(policy.max_per_second): truncation of the float
int(max_per_second) == max_per_second \div PartsPerToken

\* burst = policy.burst if policy.burst is not None else int(policy.max_per_second)
rate_limit_burst(policy) ==
    IF policy.burst.given THEN policy.burst.val ELSE int(policy.max_per_second)

\* _TokenBucket.__init__, tokens = float(burst) in parts
_TokenBucket(max_per_second, burst, now) ==
    [max_per_second |-> max_per_second, burst |-> burst,
     tokens |-> burst * PartsPerToken, last_refill |-> now]

NoBucket == [max_per_second |-> 0, burst |-> 0, tokens |-> 0, last_refill |-> 0]

\* _refill with the cap at burst left out
_refill_uncapped(bucket, now) ==
    [bucket EXCEPT !.tokens = @ + (now - bucket.last_refill) * bucket.max_per_second,
                   !.last_refill = now]

\* _TokenBucket._refill
_refill(bucket, now) ==
    LET elapsed == now - bucket.last_refill
        new_tokens == elapsed * bucket.max_per_second
    IN [bucket EXCEPT !.tokens = Min(bucket.burst * PartsPerToken, bucket.tokens + new_tokens),
                      !.last_refill = now]

\* a grant on any positive amount of tokens
acquire_grants_on_any_token(bucket) ==
    bucket.tokens > 0

\* if self.tokens >= 1.0
acquire_grants(bucket) ==
    bucket.tokens >= PartsPerToken

\* self.tokens -= 1.0
acquire_consume(bucket) ==
    [bucket EXCEPT !.tokens = @ - PartsPerToken]

\* wait_time = (1.0 - self.tokens) / self.max_per_second + 0.001: the first
\* whole second at which asyncio.sleep(wait_time) can be over
acquire_wait_time(bucket) ==
    ((PartsPerToken - bucket.tokens) \div bucket.max_per_second) + 1

\* a bucket built anew by every run()
closure_bucket_per_call(w, now) ==
    _TokenBucket(rl_bucket[w].max_per_second, rl_bucket[w].burst, now)

\* the `bucket` run() closes over: the one rate_limitM built
closure_bucket(w, now) ==
    rl_bucket[w]

RateLimitInit ==
    /\ rl_args \in RateLimitPolicyArgs
    /\ rl_wrapper = [w \in Wrappers |-> "none"]
    /\ rl_bucket = [w \in Wrappers |-> NoBucket]
    /\ rl_created_at = [w \in Wrappers |-> 0]
    /\ rl_now = 0
    /\ rl_pc = [c \in Callers |-> "idle"]
    /\ rl_on = [c \in Callers |-> "w1"]
    /\ rl_wake = [c \in Callers |-> 0]
    /\ rl_calls = 0
    /\ rl_granted = [w \in Wrappers |-> 0]
    /\ rl_last_start = [w \in Wrappers |-> 0]
    /\ rl_finished = [w \in Wrappers |-> 0]

RateLimitIdle ==
    /\ rl_args = [max_per_second |-> 0, burst |-> None]
    /\ rl_wrapper = <<>>
    /\ rl_bucket = <<>>
    /\ rl_created_at = <<>>
    /\ rl_now = 0
    /\ rl_pc = <<>>
    /\ rl_on = <<>>
    /\ rl_wake = <<>>
    /\ rl_calls = 0
    /\ rl_granted = <<>>
    /\ rl_last_start = <<>>
    /\ rl_finished = <<>>

\* time.monotonic() advances
RateLimitTick ==
    /\ rl_now < MaxClock
    /\ rl_now' = rl_now + 1
    /\ UNCHANGED <<rl_args, rl_wrapper, rl_bucket, rl_created_at, rl_pc, rl_on, rl_wake,
                   rl_calls, rl_granted, rl_last_start, rl_finished>>

\* rate_limit(interp, policy=RateLimitPolicy(...)): the policy is validated,
\* then rate_limitM builds the bucket and the wrapper around run()
RateLimitCreate(w) ==
    /\ rl_wrapper[w] = "none"
    /\ IF RateLimitPolicy_post_init(rl_args)
       THEN /\ rl_wrapper' = [rl_wrapper EXCEPT ![w] = "created"]
            /\ rl_bucket' = [rl_bucket EXCEPT ![w] =
                   _TokenBucket(rl_args.max_per_second, rate_limit_burst(rl_args), rl_now)]
            /\ rl_created_at' = [rl_created_at EXCEPT ![w] = rl_now]
       ELSE /\ rl_wrapper' = [rl_wrapper EXCEPT ![w] = "rejected"]
            /\ UNCHANGED <<rl_bucket, rl_created_at>>
    /\ UNCHANGED <<rl_args, rl_now, rl_pc, rl_on, rl_wake, rl_calls, rl_granted, rl_last_start,
                   rl_finished>>

\* one iteration of the loop of acquire() by caller c on wrapper w, up to its
\* return or its next await: between two awaits nothing else runs.  When
\* acquire() returns, run() goes straight into `await interp()`.
acquire_iteration(c, w) ==
    LET bucket == _refill(closure_bucket(w, rl_now), rl_now)
    IN IF acquire_grants(bucket)
       THEN /\ rl_bucket' = [rl_bucket EXCEPT ![w] = acquire_consume(bucket)]
            /\ rl_pc' = [rl_pc EXCEPT ![c] = "inner"]
            /\ rl_granted' = [rl_granted EXCEPT ![w] = @ + 1]
            /\ rl_last_start' = [rl_last_start EXCEPT ![w] = rl_now]
            /\ UNCHANGED rl_wake
       ELSE /\ rl_bucket' = [rl_bucket EXCEPT ![w] = bucket]
            /\ rl_pc' = [rl_pc EXCEPT ![c] = "sleep"]
            /\ rl_wake' = [rl_wake EXCEPT ![c] = rl_now + acquire_wait_time(bucket)]
            /\ UNCHANGED <<rl_granted, rl_last_start>>

\* caller c invokes wrapper w: run() starts with `await bucket.acquire()`
RateLimitCall(c, w) ==
    /\ rl_pc[c] = "idle"
    /\ rl_wrapper[w] = "created"
    /\ rl_calls < MaxCalls
    /\ rl_calls' = rl_calls + 1
    /\ rl_on' = [rl_on EXCEPT ![c] = w]
    /\ acquire_iteration(c, w)
    /\ UNCHANGED <<rl_args, rl_wrapper, rl_created_at, rl_now, rl_finished>>

\* asyncio.sleep(wait_time) is over: acquire() loops
RateLimitWake(c) ==
    /\ rl_pc[c] = "sleep"
    /\ rl_now >= rl_wake[c]
    /\ acquire_iteration(c, rl_on[c])
    /\ UNCHANGED <<rl_args, rl_wrapper, rl_created_at, rl_now, rl_on, rl_calls, rl_finished>>

\* interp() ends and run() returns its raw
RateLimitInnerDone(c) ==
    /\ rl_pc[c] = "inner"
    /\ rl_pc' = [rl_pc EXCEPT ![c] = "idle"]
    /\ rl_finished' = [rl_finished EXCEPT ![rl_on[c]] = @ + 1]
    /\ UNCHANGED <<rl_args, rl_wrapper, rl_bucket, rl_created_at, rl_now, rl_on, rl_wake,
                   rl_calls, rl_granted, rl_last_start>>

(***************************************************************************)
(* fallback / fallback_w / fallback_chain / fallback_chain_w               *)
(***************************************************************************)
\* fallbackM(primary, secondary) awaits primary and, on Error, returns what
\* secondary produces: the loop of fallback_chainM over two effects.
FallbackSugars == {"fallback", "fallback_w", "fallback_chain", "fallback_chain_w"}

MaxEffects == 3

\* the logs an effect may have written
EffectLogs == {<<>>, <<"w">>}

\* the raws an effect of the sugar can produce
FallbackRaws(sugar) ==
    IF sugar \in {"fallback", "fallback_chain"}
    THEN Results
    ELSE {WriterResult(r, l) : r \in Results, l \in EffectLogs}

\* extract: identity, or extract_writer_result for the writer sugars
fallback_extract(sugar, raw) ==
    IF sugar \in {"fallback", "fallback_chain"} THEN identity(raw) ELSE extract_writer_result(raw)

\* the first failure kept instead of the last
fallback_last_keeping_first(last, raw) ==
    IF last = NoRaw THEN raw ELSE last

\* case Error(_): last = raw
fallback_last(last, raw) ==
    raw

FallbackInit ==
    /\ f_sugar \in FallbackSugars
    /\ f_n \in (IF f_sugar \in {"fallback", "fallback_w"} THEN {2} ELSE 0..MaxEffects)
    /\ f_pc = "call"
    /\ f_idx = 1
    /\ f_last = NoRaw
    /\ f_invoked = <<>>
    /\ f_raws = <<>>
    /\ f_result = NoOutcome

FallbackIdle ==
    /\ f_sugar = "fallback"
    /\ f_n = 0
    /\ f_pc = "idle"
    /\ f_idx = 0
    /\ f_last = NoRaw
    /\ f_invoked = <<>>
    /\ f_raws = <<>>
    /\ f_result = NoOutcome

\* raw = await interp(): the next effect is invoked
FallbackCall ==
    /\ f_pc = "call"
    /\ f_idx <= f_n
    /\ f_invoked' = Append(f_invoked, f_idx)
    /\ f_pc' = "await"
    /\ UNCHANGED <<f_sugar, f_n, f_idx, f_last, f_raws, f_result>>

\* the effect produced raw: Ok returns it; Error keeps it in `last` and the
\* loop goes on; after the last effect `last` is returned
FallbackResume ==
    /\ f_pc = "await"
    /\ \E raw \in FallbackRaws(f_sugar) :
        /\ f_raws' = Append(f_raws, raw)
        /\ IF fallback_extract(f_sugar, raw).tag = "Ok"
           THEN /\ f_result' = Return(raw)
                /\ f_pc' = "done"
                /\ UNCHANGED <<f_idx, f_last>>
           ELSE /\ f_last' = fallback_last(f_last, raw)
                /\ f_idx' = f_idx + 1
                /\ IF f_idx = f_n
                   THEN f_result' = Return(f_last') /\ f_pc' = "done"
                   ELSE f_result' = f_result /\ f_pc' = "call"
    /\ UNCHANGED <<f_sugar, f_n, f_invoked>>

\* no effect was passed in: `if last is None: raise ValueError(...)`
FallbackEmpty ==
    /\ f_pc = "call"
    /\ f_n = 0
    /\ f_result' = Raise("ValueError")
    /\ f_pc' = "done"
    /\ UNCHANGED <<f_sugar, f_n, f_idx, f_last, f_invoked, f_raws>>

(***************************************************************************)
(* repeat_until / repeat_until_writer                                      *)
(***************************************************************************)
RepeatSugars == {"repeat_until", "repeat_until_writer"}

MaxRounds == 3
MaxDelay == 1

RepeatPolicy(max_rounds, delay_seconds) ==
    [max_rounds |-> max_rounds, delay_seconds |-> delay_seconds]
\* the policies __post_init__ accepts: max_rounds >= 1, delay_seconds >= 0
RepeatPolicies == {RepeatPolicy(n, d) : n \in 1..MaxRounds, d \in 0..MaxDelay}

ConditionNotMetError(rounds) == [type |-> "ConditionNotMetError", rounds |-> rounds]

\* the raw the effect produces on its k-th execution, with Result r: for
\* repeat_until_writer the execution's own log goes with it
repeat_raw(sugar, k, r) ==
    IF sugar = "repeat_until" THEN r ELSE WriterResult(r, <<k>>)

\* the Result a raw carries: r itself, or wr.result
repeat_extract(sugar, raw) ==
    IF sugar = "repeat_until" THEN identity(raw) ELSE extract_writer_result(raw)

\* return Ok(value) / return Error(e); for repeat_until_writer with wr.log
repeat_return(sugar, raw) ==
    IF sugar = "repeat_until"
    THEN [tag |-> raw.tag, val |-> raw.val]
    ELSE WriterResult([tag |-> raw.result.tag, val |-> raw.result.val], raw.log)

\* an exhaustion that keeps the log of the last round
repeat_exhausted_last_log(sugar, policy) ==
    IF sugar = "repeat_until"
    THEN Error(ConditionNotMetError(policy.max_rounds))
    ELSE WriterResult(Error(ConditionNotMetError(policy.max_rounds)), <<policy.max_rounds>>)

\* after the loop: Error(ConditionNotMetError(policy.max_rounds)), for
\* repeat_until_writer with an empty Log
repeat_exhausted(sugar, policy) ==
    IF sugar = "repeat_until"
    THEN Error(ConditionNotMetError(policy.max_rounds))
    ELSE WriterResult(Error(ConditionNotMetError(policy.max_rounds)), <<>>)

\* a loop that runs one round too many
repeat_range_one_more(policy, round_idx) ==
    round_idx <= policy.max_rounds

\* for round_idx in range(policy.max_rounds): is round_idx still in the range
repeat_range(policy, round_idx) ==
    round_idx < policy.max_rounds

\* if round_idx + 1 < policy.max_rounds and policy.delay_seconds > 0.0
repeat_sleeps(policy, round_idx) ==
    round_idx + 1 < policy.max_rounds /\ policy.delay_seconds > 0

RepeatInit ==
    /\ ru_sugar \in RepeatSugars
    /\ ru_policy \in RepeatPolicies
    /\ ru_condition \in SUBSET Values
    /\ ru_pc = "call"
    /\ ru_round = 0
    /\ ru_calls = 0
    /\ ru_raws = <<>>
    /\ ru_sleeps = 0
    /\ ru_result = NoOutcome

RepeatIdle ==
    /\ ru_sugar = "repeat_until"
    /\ ru_policy = RepeatPolicy(1, 0)
    /\ ru_condition = {}
    /\ ru_pc = "idle"
    /\ ru_round = 0
    /\ ru_calls = 0
    /\ ru_raws = <<>>
    /\ ru_sleeps = 0
    /\ ru_result = NoOutcome

\* the rest of run() once round round_idx - 1 is over: the next round starts,
\* or the loop is over and the exhaustion is returned
repeat_next_round(round_idx) ==
    /\ ru_round' = round_idx
    /\ IF repeat_range(ru_policy, round_idx)
       THEN ru_pc' = "call" /\ ru_result' = ru_result
       ELSE ru_pc' = "done" /\ ru_result' = Return(repeat_exhausted(ru_sugar, ru_policy))

\* r = await interp(): the effect is executed
RepeatCall ==
    /\ ru_pc = "call"
    /\ ru_calls' = ru_calls + 1
    /\ ru_pc' = "await"
    /\ UNCHANGED <<ru_sugar, ru_policy, ru_condition, ru_round, ru_raws, ru_sleeps, ru_result>>

\* the effect produced its raw: match on the Result, then the delay
RepeatResume ==
    /\ ru_pc = "await"
    /\ \E r \in Results :
        LET raw == repeat_raw(ru_sugar, ru_calls, r)
            result == repeat_extract(ru_sugar, raw)
        IN /\ ru_raws' = Append(ru_raws, raw)
           /\ IF result.tag = "Error" \/ result.val \in ru_condition
              THEN /\ ru_result' = Return(repeat_return(ru_sugar, raw))
                   /\ ru_pc' = "done"
                   /\ UNCHANGED <<ru_round, ru_sleeps>>
              ELSE IF repeat_sleeps(ru_policy, ru_round)
                   THEN /\ ru_pc' = "sleep"
                        /\ ru_sleeps' = ru_sleeps + 1
                        /\ UNCHANGED <<ru_round, ru_result>>
                   ELSE /\ repeat_next_round(ru_round + 1)
                        /\ UNCHANGED ru_sleeps
    /\ UNCHANGED <<ru_sugar, ru_policy, ru_condition, ru_calls>>

\* asyncio.sleep(policy.delay_seconds) is over
RepeatWake ==
    /\ ru_pc = "sleep"
    /\ repeat_next_round(ru_round + 1)
    /\ UNCHANGED <<ru_sugar, ru_policy, ru_condition, ru_calls, ru_raws, ru_sleeps>>

(***************************************************************************)
(* ensure / reject / ensure_w / reject_w                                   *)
(***************************************************************************)
\* The four sugar functions run side by side on the same inner outcome:
\* ensure and ensure_w are given the predicate p, reject and reject_w its
\* negation, all of them the same error factory.
GuardSugars == {"ensure", "reject", "ensure_w", "reject_w"}

\* the predicate passed to a sugar function, as the set of values it holds for
guard_predicate(sugar, p) ==
    IF sugar \in {"ensure", "ensure_w"} THEN p ELSE Values \ p

\* the raw `await interp()` produces for a sugar function
guard_raw(sugar, inner, log) ==
    IF sugar \in {"ensure", "reject"} THEN inner ELSE WriterResult(inner, log)

\* ensure.check: Ok(value) if predicate(value) else Error(error(value))
ensure_check(value, predicate, error) ==
    IF value \in predicate THEN Ok(value) ELSE Error(error[value])

\* reject.check with the arms of ensure.check
reject_check_as_ensure(value, predicate, error) ==
    IF value \in predicate THEN Ok(value) ELSE Error(error[value])

\* reject.check: Error(error(value)) if predicate(value) else Ok(value)
reject_check(value, predicate, error) ==
    IF value \in predicate THEN Error(error[value]) ELSE Ok(value)

\* interp.then(check): check is awaited on the value of an Ok, an Error is
\* handed on as it is
guard_then(sugar, r, predicate, error) ==
    IF r.tag = "Error"
    THEN r
    ELSE IF sugar = "ensure"
         THEN ensure_check(r.val, predicate, error)
         ELSE reject_check(r.val, predicate, error)

\* ensure_w.combine_err / reject_w.combine_err
guard_combine_err(e, wr) == WriterResult(Error(e), wr.log)
\* ensure_w.combine_ok / reject_w.combine_ok
guard_combine_ok(value, wr) == wr

\* ensureM.run / rejectM.run after `raw = await interp()`, as ensure_w and
\* reject_w instantiate them
guardM_run(sugar, raw, predicate, error) ==
    LET result == extract_writer_result(raw)
    IN IF result.tag = "Error"
       THEN raw
       ELSE LET value == result.val
            IN IF sugar = "ensure_w"
               THEN IF value \in predicate
                    THEN guard_combine_ok(value, raw)
                    ELSE guard_combine_err(error[value], raw)
               ELSE IF value \in predicate
                    THEN guard_combine_err(error[value], raw)
                    ELSE guard_combine_ok(value, raw)

\* what run() of a sugar function returns for the raw of the inner effect
guard_run(sugar, raw, predicate, error) ==
    IF sugar \in {"ensure", "reject"}
    THEN guard_then(sugar, raw, predicate, error)
    ELSE guardM_run(sugar, raw, predicate, error)

\* the Result a raw of a sugar function carries
guard_extract(sugar, raw) ==
    IF sugar \in {"ensure", "reject"} THEN identity(raw) ELSE extract_writer_result(raw)

GuardInit ==
    /\ g_inner \in Results
    /\ g_log \in EffectLogs
    /\ g_p \in SUBSET Values
    /\ g_error \in [Values -> Errors]
    /\ g_pc = [s \in GuardSugars |-> "call"]
    /\ g_predicate_calls = [s \in GuardSugars |-> 0]
    /\ g_error_calls = [s \in GuardSugars |-> 0]
    /\ g_result = [s \in GuardSugars |-> NoRaw]

GuardIdle ==
    /\ g_inner = NoRaw
    /\ g_log = <<>>
    /\ g_p = {}
    /\ g_error = <<>>
    /\ g_pc = <<>>
    /\ g_predicate_calls = <<>>
    /\ g_error_calls = <<>>
    /\ g_result = <<>>

\* raw = await interp()
GuardCall(s) ==
    /\ g_pc[s] = "call"
    /\ g_pc' = [g_pc EXCEPT ![s] = "await"]
    /\ UNCHANGED <<g_inner, g_log, g_p, g_error, g_predicate_calls, g_error_calls, g_result>>

\* the inner effect produced its raw: the predicate is evaluated on the value
\* of an Ok, the error factory where the Ok is turned into an Error
GuardResume(s) ==
    /\ g_pc[s] = "await"
    /\ LET raw == guard_raw(s, g_inner, g_log)
           out == guard_run(s, raw, guard_predicate(s, g_p), g_error)
           was_ok == guard_extract(s, raw).tag = "Ok"
           is_ok == guard_extract(s, out).tag = "Ok"
       IN /\ g_result' = [g_result EXCEPT ![s] = out]
          /\ g_predicate_calls' = [g_predicate_calls EXCEPT ![s] = IF was_ok THEN @ + 1 ELSE @]
          /\ g_error_calls' =
                [g_error_calls EXCEPT ![s] = IF was_ok /\ ~is_ok THEN @ + 1 ELSE @]
    /\ g_pc' = [g_pc EXCEPT ![s] = "done"]
    /\ UNCHANGED <<g_inner, g_log, g_p, g_error>>

(***************************************************************************)
(* validate / validate_w                                                   *)
(***************************************************************************)
\* asyncio.gather starts every effect; each completes at a moment of its own
\* with Ok or Error.  For validate_w effect i writes the log <<i>>.
ValidateSugars == {"validate", "validate_w"}

MaxItems == 3

ValidateItems == 1..v_n

\* the raw effect i completes with, carrying Result r
validate_raw(sugar, i, r) ==
    IF sugar = "validate" THEN r ELSE WriterResult(r, <<i>>)

\* the Result of a raw: r itself, or wr.result
validate_extract(sugar, raw) ==
    IF sugar = "validate" THEN identity(raw) ELSE extract_writer_result(raw)

\* the results handed over in the order the effects completed
gather_in_completion_order(raw, order) ==
    [k \in 1..Len(order) |-> raw[order[k]]]

\* await asyncio.gather(...): the list of results in the order of the
\* awaitables passed in
gather(raw, order) ==
    [i \in 1..Len(order) |-> raw[i]]

\* for r in results: the payloads of the results with the tag, appended in
\* the order of the list
RECURSIVE validate_collect(_, _, _)
validate_collect(sugar, results, tag) ==
    IF results = <<>>
    THEN <<>>
    ELSE LET r == validate_extract(sugar, Head(results))
         IN (IF r.tag = tag THEN <<r.val>> ELSE <<>>)
                \o validate_collect(sugar, Tail(results), tag)

\* merged_log = merged_log.combine(wr.log), over the list
RECURSIVE validate_merged_log(_)
validate_merged_log(wrs) ==
    IF wrs = <<>> THEN <<>> ELSE combine(Head(wrs).log, validate_merged_log(Tail(wrs)))

\* if failures: return Error(failures) / return Ok(successes)
validate_return(sugar, results) ==
    LET successes == validate_collect(sugar, results, "Ok")
        failures == validate_collect(sugar, results, "Error")
        result == IF failures # <<>> THEN Error(failures) ELSE Ok(successes)
    IN IF sugar = "validate"
       THEN result
       ELSE WriterResult(result, validate_merged_log(results))

ValidateInit ==
    /\ v_sugar \in ValidateSugars
    /\ v_n \in 0..MaxItems
    /\ v_pc = "start"
    /\ v_task = [i \in ValidateItems |-> "created"]
    /\ v_raw = [i \in ValidateItems |-> NoRaw]
    /\ v_order = <<>>
    /\ v_result = NoRaw

ValidateIdle ==
    /\ v_sugar = "validate"
    /\ v_n = 0
    /\ v_pc = "idle"
    /\ v_task = <<>>
    /\ v_raw = <<>>
    /\ v_order = <<>>
    /\ v_result = NoRaw

\* asyncio.gather(*(i() for i in interps)): every effect becomes a task
ValidateStart ==
    /\ v_pc = "start"
    /\ v_task' = [i \in ValidateItems |-> "running"]
    /\ v_pc' = "gather"
    /\ UNCHANGED <<v_sugar, v_n, v_raw, v_order, v_result>>

\* effect i completes with a raw
ValidateComplete(i) ==
    /\ v_task[i] = "running"
    /\ \E r \in Results : v_raw' = [v_raw EXCEPT ![i] = validate_raw(v_sugar, i, r)]
    /\ v_task' = [v_task EXCEPT ![i] = "done"]
    /\ v_order' = Append(v_order, i)
    /\ UNCHANGED <<v_sugar, v_n, v_pc, v_result>>

\* gather returns once every task is done; run() sorts the results into
\* successes and failures and returns
ValidateGathered ==
    /\ v_pc = "gather"
    /\ \A i \in ValidateItems : v_task[i] = "done"
    /\ v_result' = validate_return(v_sugar, gather(v_raw, v_order))
    /\ v_pc' = "done"
    /\ UNCHANGED <<v_sugar, v_n, v_task, v_raw, v_order>>

(***************************************************************************)
(* batch / batch_w / traverse_par                                          *)
(***************************************************************************)
\* run() makes one process() task per item with asyncio.gather; each task
\* holds a slot of asyncio.Semaphore(concurrency) while its handler effect
\* runs.  The handler effect of item i ends with a Result (batch_w: a
\* WriterResult with the log <<i>>) or by raising.
BatchSugars == {"batch", "batch_w", "traverse_par"}

MaxBatchItems == 3
MaxConcurrency == 2

BatchItems == 1..ba_n

\* traverse_par(items, handler, concurrency=c) is batch(items, handler, concurrency=c)
batch_is_writer(sugar) == sugar = "batch_w"

\* the raw the handler effect of item i returns, carrying Result r
batch_raw(sugar, i, r) ==
    IF batch_is_writer(sugar) THEN WriterResult(r, <<i>>) ELSE r

\* extract=extract_result in batch, extract=extract_writer_result in batch_w
batch_extract(sugar, raw) ==
    IF batch_is_writer(sugar) THEN extract_writer_result(raw) ELSE identity(raw)

\* merge_logs: result = Log(); for log in logs: result = result.combine(log)
RECURSIVE merge_logs(_)
merge_logs(logs) ==
    IF logs = <<>>
    THEN <<>>
    ELSE combine(merge_logs(SubSeq(logs, 1, Len(logs) - 1)), logs[Len(logs)])

\* combine_ok(pairs): pairs is the list of (value, raw)
batch_combine_ok(sugar, pairs) ==
    LET values == [k \in 1..Len(pairs) |-> pairs[k][1]]
    IN IF batch_is_writer(sugar)
       THEN WriterResult(Ok(values), merge_logs([k \in 1..Len(pairs) |-> pairs[k][2].log]))
       ELSE Ok(values)

\* combine_err(e, raws): batch_w merges the logs of the raws that are not None
batch_combine_err(sugar, e, raws) ==
    IF batch_is_writer(sugar)
    THEN LET present == SelectSeq(raws, LAMBDA wr : wr # NoRaw)
         IN WriterResult(Error(e), merge_logs([k \in 1..Len(present) |-> present[k].log]))
    ELSE Error(e)

\* `for raw in raws:` from position k on, with the pairs collected so far
RECURSIVE batch_scan(_, _, _, _)
batch_scan(sugar, raws, k, pairs) ==
    IF k > Len(raws)
    THEN Return(batch_combine_ok(sugar, pairs))
    ELSE IF raws[k] = NoRaw
         THEN Raise("RuntimeError")
         ELSE LET result == batch_extract(sugar, raws[k])
              IN IF result.tag = "Ok"
                 THEN batch_scan(sugar, raws, k + 1, Append(pairs, <<result.val, raws[k]>>))
                 ELSE Return(batch_combine_err(sugar, result.val, raws))

\* batch_all over the same run(): only the part after gather differs
BatchAllSugars == {"batch_all"}

\* batch_allM: `for raw in raws:` from position k on; combine(finalized) of
\* batch_all is Ok(raws)
RECURSIVE batch_all_scan(_, _, _)
batch_all_scan(raws, k, finalized) ==
    IF k > Len(raws)
    THEN Return(Ok(finalized))
    ELSE IF raws[k] = NoRaw
         THEN Raise("RuntimeError")
         ELSE batch_all_scan(raws, k + 1, Append(finalized, raws[k]))

\* what run() does once gather has returned
batch_after_gather(sugar, raws) ==
    IF sugar \in BatchAllSugars
    THEN batch_all_scan(raws, 1, <<>>)
    ELSE batch_scan(sugar, raws, 1, <<>>)

\* a handler result stored at the next free position instead of at idx
batch_store_appended(raws, idx, raw, order) ==
    [raws EXCEPT ![Len(order) + 1] = raw]

\* raws[idx] = await handler(item)()
batch_store(raws, idx, raw, order) ==
    [raws EXCEPT ![idx] = raw]

\* a semaphore that never refuses
locked_never(value, waiters) ==
    FALSE

\* Semaphore.locked(): no slot left, or somebody is queued
locked(value, waiters) ==
    value = 0 \/ waiters # <<>>

\* Semaphore._wake_up_next(): the first queued task whose future is not done
\* gets the slot; [value, task, woke]
_wake_up_next(value, task, waiters) ==
    LET pending == SelectSeq(waiters, LAMBDA j : task[j] = "waiting")
    IN IF pending = <<>>
       THEN [value |-> value, task |-> task, woke |-> FALSE]
       ELSE [value |-> value - 1,
             task |-> [task EXCEPT ![Head(pending)] = "woken"],
             woke |-> TRUE]

\* `while self._value > 0: if not self._wake_up_next(): break`
RECURSIVE wake_while_value(_, _, _)
wake_while_value(value, task, waiters) ==
    IF value > 0
    THEN LET w == _wake_up_next(value, task, waiters)
         IN IF w.woke THEN wake_while_value(w.value, w.task, waiters) ELSE w
    ELSE [value |-> value, task |-> task, woke |-> FALSE]

\* a release() that counts the slot but wakes nobody up
release_without_wake(value, task, waiters) ==
    [value |-> value + 1, task |-> task, woke |-> FALSE]

\* Semaphore.release(): self._value += 1; self._wake_up_next()
release(value, task, waiters) ==
    _wake_up_next(value + 1, task, waiters)

BatchInit ==
    /\ ba_sugar \in BatchSugars
    /\ ba_n \in 0..MaxBatchItems
    /\ ba_concurrency \in 0..MaxConcurrency
    /\ ba_pc = "start"
    /\ ba_task = [i \in BatchItems |-> "none"]
    /\ ba_raws = <<>>
    /\ ba_value = 0
    /\ ba_waiters = <<>>
    /\ ba_order = <<>>
    /\ ba_returned = [i \in BatchItems |-> NoRaw]
    /\ ba_result = NoOutcome

\* batch and batch_all, for every number of items and every concurrency
BatchAnyInit ==
    /\ ba_sugar \in BatchSugars \cup BatchAllSugars
    /\ ba_n \in 0..MaxBatchItems
    /\ ba_concurrency \in 0..MaxConcurrency
    /\ ba_pc = "start"
    /\ ba_task = [i \in BatchItems |-> "none"]
    /\ ba_raws = <<>>
    /\ ba_value = 0
    /\ ba_waiters = <<>>
    /\ ba_order = <<>>
    /\ ba_returned = [i \in BatchItems |-> NoRaw]
    /\ ba_result = NoOutcome

BatchIdle ==
    /\ ba_sugar = "batch"
    /\ ba_n = 0
    /\ ba_concurrency = 0
    /\ ba_pc = "idle"
    /\ ba_task = <<>>
    /\ ba_raws = <<>>
    /\ ba_value = 0
    /\ ba_waiters = <<>>
    /\ ba_order = <<>>
    /\ ba_returned = <<>>
    /\ ba_result = NoOutcome

\* semaphore = asyncio.Semaphore(concurrency); raws = [None] * len(items);
\* asyncio.gather(...) makes a task of every process(i, item)
BatchStart ==
    /\ ba_pc = "start"
    /\ ba_value' = ba_concurrency
    /\ ba_raws' = [i \in BatchItems |-> NoRaw]
    /\ ba_task' = [i \in BatchItems |-> "created"]
    /\ ba_pc' = "gather"
    /\ UNCHANGED <<ba_sugar, ba_n, ba_concurrency, ba_waiters, ba_order, ba_returned, ba_result>>

\* the first step of task i (tasks take their first step in the order gather
\* made them): `async with semaphore` takes a slot and the handler effect
\* starts, or the task queues up in acquire()
BatchProcess(i) ==
    /\ ba_task[i] = "created"
    /\ \A j \in BatchItems : j < i => ba_task[j] # "created"
    /\ IF ~locked(ba_value, ba_waiters)
       THEN /\ ba_value' = ba_value - 1
            /\ ba_task' = [ba_task EXCEPT ![i] = "running"]
            /\ UNCHANGED ba_waiters
       ELSE /\ ba_waiters' = Append(ba_waiters, i)
            /\ ba_task' = [ba_task EXCEPT ![i] = "waiting"]
            /\ UNCHANGED ba_value
    /\ UNCHANGED <<ba_sugar, ba_n, ba_concurrency, ba_pc, ba_raws, ba_order, ba_returned, ba_result>>

\* a task woken by release() continues in acquire(): it leaves the queue
\* and its handler effect starts
BatchResume(i) ==
    /\ ba_task[i] = "woken"
    /\ LET waiters == SelectSeq(ba_waiters, LAMBDA j : j # i)
           w == wake_while_value(ba_value, [ba_task EXCEPT ![i] = "running"], waiters)
       IN /\ ba_waiters' = waiters
          /\ ba_value' = w.value
          /\ ba_task' = w.task
    /\ UNCHANGED <<ba_sugar, ba_n, ba_concurrency, ba_pc, ba_raws, ba_order, ba_returned, ba_result>>

\* the handler effect of item i ends: its raw goes into raws[idx], or the
\* exception ends the task; `async with` gives the slot back either way
BatchComplete(i) ==
    /\ ba_task[i] = "running"
    /\ \E o \in {Return(batch_raw(ba_sugar, i, r)) : r \in Results}
                    \cup {Raise(x) : x \in Exceptions} :
          LET ended == IF o.kind = "return" THEN "done" ELSE "raised"
              w == release(ba_value, [ba_task EXCEPT ![i] = ended], ba_waiters)
          IN /\ ba_raws' = IF o.kind = "return"
                           THEN batch_store(ba_raws, i, o.val, ba_order)
                           ELSE ba_raws
             /\ ba_value' = w.value
             /\ ba_task' = w.task
             /\ ba_returned' = IF o.kind = "return"
                               THEN [ba_returned EXCEPT ![i] = batch_extract(ba_sugar, o.val)]
                               ELSE ba_returned
    /\ ba_order' = Append(ba_order, i)
    /\ UNCHANGED <<ba_sugar, ba_n, ba_concurrency, ba_pc, ba_waiters, ba_result>>

\* a run() that returns as soon as one handler effect has returned an Error
BatchGathered_fail_fast ==
    /\ ba_pc = "gather"
    /\ \E i \in BatchItems : ba_task[i] = "done" /\ ba_returned[i].tag = "Error"
    /\ ba_result' = batch_scan(ba_sugar, SelectSeq(ba_raws, LAMBDA raw : raw # NoRaw), 1, <<>>)
    /\ ba_pc' = "done"
    /\ UNCHANGED <<ba_sugar, ba_n, ba_concurrency, ba_task, ba_raws, ba_value, ba_waiters,
                   ba_order, ba_returned>>

\* gather hands over once every task is done; run() scans raws and returns
BatchGathered ==
    /\ ba_pc = "gather"
    /\ \A i \in BatchItems : ba_task[i] = "done"
    /\ ba_result' = batch_after_gather(ba_sugar, ba_raws)
    /\ ba_pc' = "done"
    /\ UNCHANGED <<ba_sugar, ba_n, ba_concurrency, ba_task, ba_raws, ba_value, ba_waiters,
                   ba_order, ba_returned>>

\* a task ended with an exception: gather raises it in run(), which lets it
\* through; the other tasks go on
BatchGatherRaised ==
    /\ ba_pc = "gather"
    /\ \E i \in BatchItems : ba_task[i] = "raised"
    /\ \E x \in Exceptions : ba_result' = Raise(x)
    /\ ba_pc' = "done"
    /\ UNCHANGED <<ba_sugar, ba_n, ba_concurrency, ba_task, ba_raws, ba_value, ba_waiters,
                   ba_order, ba_returned>>

(***************************************************************************)
(* parallel / zip_par / gather2 / gather3 and their _w forms               *)
(***************************************************************************)
\* run() awaits asyncio.gather over all effects and then looks at the raws
\* in input order.  Effect i ends with a Result (the _w forms: a
\* WriterResult with the log <<i>>) or by raising.
ParSugars == {"parallel", "parallel_w", "zip_par", "zip_par_w",
              "gather2", "gather2_w", "gather3", "gather3_w"}

MaxParallel == 3

ParBranches == 1..pa_n

\* gather2 takes effects a, b and gather3 a, b, c; parallel and zip_par take *interps
ParArities(sugar) ==
    IF sugar \in {"gather2", "gather2_w"} THEN {2}
    ELSE IF sugar \in {"gather3", "gather3_w"} THEN {3}
    ELSE 0..MaxParallel

par_is_writer(sugar) == sugar \in {"parallel_w", "zip_par_w", "gather2_w", "gather3_w"}
par_is_gather(sugar) == sugar \in {"gather2", "gather2_w", "gather3", "gather3_w"}

\* the raw effect i returns, carrying Result r
par_raw(sugar, i, r) ==
    IF par_is_writer(sugar) THEN WriterResult(r, <<i>>) ELSE r

\* extract=identity in the plain forms, extract=extract_writer_result in the _w forms
par_extract(sugar, raw) ==
    IF par_is_writer(sugar) THEN extract_writer_result(raw) ELSE identity(raw)

\* combine_ok: the values in the order of the pairs (a list in parallel, a
\* tuple in zip_par and gather); the _w forms merge the logs of the pairs
par_combine_ok(sugar, pairs) ==
    LET values == [k \in 1..Len(pairs) |-> pairs[k][1]]
    IN IF par_is_writer(sugar)
       THEN WriterResult(Ok(values), merge_logs([k \in 1..Len(pairs) |-> pairs[k][2].log]))
       ELSE Ok(values)

\* a combine_err that drops the logs
par_combine_err_empty_log(sugar, e, raws) ==
    IF par_is_writer(sugar) THEN WriterResult(Error(e), <<>>) ELSE Error(e)

\* combine_err: parallel_w and zip_par_w merge the logs of all raws;
\* gather2_w and gather3_w get only e and return Log()
par_combine_err(sugar, e, raws) ==
    IF ~par_is_writer(sugar)
    THEN Error(e)
    ELSE IF par_is_gather(sugar)
         THEN WriterResult(Error(e), <<>>)
         ELSE WriterResult(Error(e), merge_logs([k \in 1..Len(raws) |-> raws[k].log]))

\* `for raw in raws:` of parallelM / zip_parM, and the chain of matches on
\* result_a, result_b, result_c of gather2M / gather3M: from position k on
RECURSIVE par_scan(_, _, _, _)
par_scan(sugar, raws, k, pairs) ==
    IF k > Len(raws)
    THEN par_combine_ok(sugar, pairs)
    ELSE LET result == par_extract(sugar, raws[k])
         IN IF result.tag = "Ok"
            THEN par_scan(sugar, raws, k + 1, Append(pairs, <<result.val, raws[k]>>))
            ELSE par_combine_err(sugar, result.val, raws)

ParInit ==
    /\ pa_sugar \in ParSugars
    /\ pa_n \in ParArities(pa_sugar)
    /\ pa_pc = "start"
    /\ pa_task = [i \in ParBranches |-> "created"]
    /\ pa_raw = [i \in ParBranches |-> NoRaw]
    /\ pa_order = <<>>
    /\ pa_result = NoOutcome

ParIdle ==
    /\ pa_sugar = "parallel"
    /\ pa_n = 0
    /\ pa_pc = "idle"
    /\ pa_task = <<>>
    /\ pa_raw = <<>>
    /\ pa_order = <<>>
    /\ pa_result = NoOutcome

\* asyncio.gather(*(i() for i in interps)) / asyncio.gather(a(), b()):
\* every effect becomes a task
ParStart ==
    /\ pa_pc = "start"
    /\ pa_task' = [i \in ParBranches |-> "running"]
    /\ pa_pc' = "gather"
    /\ UNCHANGED <<pa_sugar, pa_n, pa_raw, pa_order, pa_result>>

\* effect i ends, with a raw or an exception
ParComplete(i) ==
    /\ pa_task[i] = "running"
    /\ \/ \E r \in Results :
            /\ pa_raw' = [pa_raw EXCEPT ![i] = par_raw(pa_sugar, i, r)]
            /\ pa_task' = [pa_task EXCEPT ![i] = "done"]
       \/ /\ pa_task' = [pa_task EXCEPT ![i] = "raised"]
          /\ UNCHANGED pa_raw
    /\ pa_order' = Append(pa_order, i)
    /\ UNCHANGED <<pa_sugar, pa_n, pa_pc, pa_result>>

\* a run() that returns as soon as one effect has returned an Error,
\* cancelling the rest
ParGathered_fail_fast ==
    /\ pa_pc = "gather"
    /\ \E i \in ParBranches : pa_task[i] = "done" /\ par_extract(pa_sugar, pa_raw[i]).tag = "Error"
    /\ pa_result' = Return(par_scan(pa_sugar, SelectSeq(pa_raw, LAMBDA raw : raw # NoRaw),
                                    1, <<>>))
    /\ pa_task' = [i \in ParBranches |->
                      IF pa_task[i] = "running" THEN "cancelled" ELSE pa_task[i]]
    /\ pa_pc' = "done"
    /\ UNCHANGED <<pa_sugar, pa_n, pa_raw, pa_order>>

\* gather hands over the raws, in input order, once every task is done;
\* run() scans them and returns
ParGathered ==
    /\ pa_pc = "gather"
    /\ \A i \in ParBranches : pa_task[i] = "done"
    /\ pa_result' = Return(par_scan(pa_sugar, gather(pa_raw, pa_order), 1, <<>>))
    /\ pa_pc' = "done"
    /\ UNCHANGED <<pa_sugar, pa_n, pa_task, pa_raw, pa_order>>

\* a task ended with an exception: gather raises it in run(), which lets it
\* through; the other tasks go on
ParGatherRaised ==
    /\ pa_pc = "gather"
    /\ \E i \in ParBranches : pa_task[i] = "raised"
    /\ \E x \in Exceptions : pa_result' = Raise(x)
    /\ pa_pc' = "done"
    /\ UNCHANGED <<pa_sugar, pa_n, pa_task, pa_raw, pa_order>>

(***************************************************************************)
(* traverse / traverse_writer / fold / fold_w                              *)
(***************************************************************************)
\* run() is a for loop over items that awaits handler(item)() (fold:
\* handler(acc, item)()) and leaves at the first Error.  The handler effect
\* of item i returns a Result, in the writer forms with the log <<i>>.
SeqSugars == {"traverse", "traverse_writer", "fold", "fold_w"}

MaxSeqItems == 3

seq_is_fold(sugar) == sugar \in {"fold", "fold_w"}
seq_is_writer(sugar) == sugar \in {"traverse_writer", "fold_w"}

\* the arguments of one handler call: handler(item) or handler(acc, item)
seq_call(sugar, acc, item) ==
    [acc |-> IF seq_is_fold(sugar) THEN acc ELSE "none", item |-> item]

\* the raw the handler effect of item i returns, carrying Result r
seq_raw(sugar, i, r) ==
    IF seq_is_writer(sugar) THEN WriterResult(r, <<i>>) ELSE r

\* extract=identity / extract=extract_writer_result; fold matches r, fold_w wr.result
seq_extract(sugar, raw) ==
    IF seq_is_writer(sugar) THEN extract_writer_result(raw) ELSE identity(raw)

\* a fold that never replaces its accumulator
seq_acc_kept(sugar, acc, result) == acc

\* case Ok(new_acc): acc = new_acc (fold); traverse has no accumulator
seq_acc(sugar, acc, result) ==
    IF seq_is_fold(sugar) THEN result.val ELSE acc

\* the log returned: merge_logs over the raws awaited so far (traverse_writer),
\* merged_log (fold_w)
seq_log(raws) ==
    merge_logs([k \in 1..Len(raws) |-> raws[k].log])

\* case Error(e): return combine_err(e, raws) / return Error(e) /
\* return WriterResult(Error(e), merged_log)
seq_return_err(sugar, e, raws) ==
    IF seq_is_writer(sugar) THEN WriterResult(Error(e), seq_log(raws)) ELSE Error(e)

\* after the loop: combine_ok(pairs) (every raw is in pairs by then) /
\* return Ok(acc) / return WriterResult(Ok(acc), merged_log)
seq_return_ok(sugar, acc, raws) ==
    LET value == IF seq_is_fold(sugar)
                 THEN acc
                 ELSE [k \in 1..Len(raws) |-> seq_extract(sugar, raws[k]).val]
    IN IF seq_is_writer(sugar) THEN WriterResult(Ok(value), seq_log(raws)) ELSE Ok(value)

SeqInit ==
    /\ sq_sugar \in SeqSugars
    /\ sq_n \in 0..MaxSeqItems
    /\ sq_initial \in Values
    /\ sq_pc = "call"
    /\ sq_idx = 1
    /\ sq_acc = sq_initial
    /\ sq_invoked = <<>>
    /\ sq_raws = <<>>
    /\ sq_result = NoRaw

SeqIdle ==
    /\ sq_sugar = "traverse"
    /\ sq_n = 0
    /\ sq_initial = "v1"
    /\ sq_pc = "idle"
    /\ sq_idx = 1
    /\ sq_acc = "v1"
    /\ sq_invoked = <<>>
    /\ sq_raws = <<>>
    /\ sq_result = NoRaw

\* items is empty: the loop body never runs
SeqEmpty ==
    /\ sq_pc = "call"
    /\ sq_n = 0
    /\ sq_result' = seq_return_ok(sq_sugar, sq_acc, sq_raws)
    /\ sq_pc' = "done"
    /\ UNCHANGED <<sq_sugar, sq_n, sq_initial, sq_idx, sq_acc, sq_invoked, sq_raws>>

\* a loop that starts the handler of the next item while the last one is
\* still awaited
SeqCall_without_await ==
    /\ sq_pc \in {"call", "await"}
    /\ Len(sq_invoked) < sq_n
    /\ sq_invoked' = Append(sq_invoked, seq_call(sq_sugar, sq_acc, Len(sq_invoked) + 1))
    /\ sq_pc' = "await"
    /\ UNCHANGED <<sq_sugar, sq_n, sq_initial, sq_idx, sq_acc, sq_raws, sq_result>>

\* handler(item)() / handler(acc, item)(): the handler effect of the
\* current item starts
SeqCall ==
    /\ sq_pc = "call"
    /\ sq_idx <= sq_n
    /\ sq_invoked' = Append(sq_invoked, seq_call(sq_sugar, sq_acc, sq_idx))
    /\ sq_pc' = "await"
    /\ UNCHANGED <<sq_sugar, sq_n, sq_initial, sq_idx, sq_acc, sq_raws, sq_result>>

\* the handler effect returns its raw: run() leaves on an Error, returns
\* after the last item, or goes on to the next item
SeqResume ==
    /\ sq_pc = "await"
    /\ \E r \in Results :
          LET raw == seq_raw(sq_sugar, sq_idx, r)
              raws == Append(sq_raws, raw)
              result == seq_extract(sq_sugar, raw)
              acc == seq_acc(sq_sugar, sq_acc, result)
          IN /\ sq_raws' = raws
             /\ IF result.tag = "Error"
                THEN /\ sq_result' = seq_return_err(sq_sugar, result.val, raws)
                     /\ sq_pc' = "done"
                     /\ UNCHANGED <<sq_idx, sq_acc>>
                ELSE IF sq_idx = sq_n
                     THEN /\ sq_result' = seq_return_ok(sq_sugar, acc, raws)
                          /\ sq_acc' = acc
                          /\ sq_pc' = "done"
                          /\ UNCHANGED sq_idx
                     ELSE /\ sq_acc' = acc
                          /\ sq_idx' = sq_idx + 1
                          /\ sq_pc' = "call"
                          /\ UNCHANGED sq_result
    /\ UNCHANGED <<sq_sugar, sq_n, sq_initial, sq_invoked>>

(***************************************************************************)
(* Log                                                                     *)
(***************************************************************************)
\* Log subclasses list, so a Log is a mutable object; two Logs are equal
\* when their contents are.  Objects are kept in lg_heap under their
\* position, so that a call changing an operand shows.
LogEntries == {"a", "b"}

MaxLogs == 3
MaxOfItems == 1

\* the argument tuples of Log.of(*items), Log() included
LogOfItems ==
    UNION {[1..n -> LogEntries] : n \in 0..MaxOfItems}

NoCall == [op |-> "none", self |-> 0, other |-> 0, result |-> 0]
LogCall(op, self, other, result) ==
    [op |-> op, self |-> self, other |-> other, result |-> result]

\* a combine that extends self itself and returns it
Log_combine_in_place(heap, self, other) ==
    [heap |-> [heap EXCEPT ![self] = heap[self] \o heap[other]], result |-> self]

\* combine: result = Log(self); result.extend(other); return result
Log_combine(heap, self, other) ==
    LET copied == Append(heap, heap[self])
        result == Len(copied)
    IN [heap |-> [copied EXCEPT ![result] = copied[result] \o copied[other]],
        result |-> result]

\* tell: result = Log(self); result.append(item); return result
Log_tell(heap, self, item) ==
    LET copied == Append(heap, heap[self])
        result == Len(copied)
    IN [heap |-> [copied EXCEPT ![result] = Append(copied[result], item)],
        result |-> result]

LogInit ==
    /\ lg_heap = <<>>
    /\ lg_last = NoCall

LogIdle ==
    /\ lg_heap = <<>>
    /\ lg_last = LogCall("idle", 0, 0, 0)

\* Log() / Log.of(*items): a new object
LogOf ==
    /\ lg_last.op # "idle"
    /\ Len(lg_heap) < MaxLogs
    /\ \E items \in LogOfItems :
          /\ lg_heap' = Append(lg_heap, items)
          /\ lg_last' = LogCall("of", 0, 0, Len(lg_heap) + 1)

\* x.combine(y) on two objects made earlier (x and y may be the same object)
LogCombine ==
    /\ lg_last.op # "idle"
    /\ Len(lg_heap) < MaxLogs
    /\ \E self \in DOMAIN lg_heap, other \in DOMAIN lg_heap :
          LET c == Log_combine(lg_heap, self, other)
          IN /\ lg_heap' = c.heap
             /\ lg_last' = LogCall("combine", self, other, c.result)

\* x.tell(item)
LogTell ==
    /\ lg_last.op # "idle"
    /\ Len(lg_heap) < MaxLogs
    /\ \E self \in DOMAIN lg_heap, item \in LogEntries :
          LET c == Log_tell(lg_heap, self, item)
          IN /\ lg_heap' = c.heap
             /\ lg_last' = LogCall("tell", self, 0, c.result)

(***************************************************************************)
(* LazyCoroResultWriter.then / with_log / listen / censor                  *)
(***************************************************************************)
\* Each method returns a new LazyCoroResultWriter whose wrapper() awaits
\* self() and builds a WriterResult from what it gave.  A payload is written
\* as the tuple of its parts, <<v>> for a plain value and <<v, log>> for the
\* pair listen makes, so that a value and a pair compare as unequal.
WriterOps == {"then", "with_log", "listen", "censor"}

MaxWriterLog == 2

\* the logs an effect may have written, and the entries handed to with_log
WriterLogs ==
    UNION {[1..n -> LogEntries] : n \in 0..MaxWriterLog}

\* the WriterResults self() and the continuation can give
WriterResults ==
    {WriterResult(Ok(<<v>>), l) : v \in Values, l \in WriterLogs}
        \cup {WriterResult(Error(e), l) : e \in Errors, l \in WriterLogs}

\* the functions given to censor
LogFunctions == {"identity", "clear", "reversed", "doubled"}

apply_log_function(f, log) ==
    CASE f = "identity" -> log
      [] f = "clear" -> <<>>
      [] f = "reversed" -> [k \in 1..Len(log) |-> log[Len(log) + 1 - k]]
      [] f = "doubled" -> log \o log

\* a bind that loses the log on the Error arm
then_error_without_log(wr) ==
    WriterResult(Error(wr.result.val), <<>>)

\* then, case Error(err): return WriterResult(Error(err), wr.log)
then_error(wr) ==
    WriterResult(Error(wr.result.val), wr.log)

\* then, case Ok(value): combined_log = wr.log.combine(next_wr.log);
\* return WriterResult(next_wr.result, combined_log)
then_ok(wr, next_wr) ==
    WriterResult(next_wr.result, combine(wr.log, next_wr.log))

\* a with_log that puts its entries in front
with_log_in_front(wr, entries) ==
    WriterResult(wr.result, combine(entries, wr.log))

\* with_log: WriterResult(wr.result, wr.log.combine(Log.of(*entries)))
with_log(wr, entries) ==
    WriterResult(wr.result, combine(wr.log, entries))

\* listen: Ok((value, wr.log)) with wr.log, or Error(err) with wr.log
listen(wr) ==
    IF wr.result.tag = "Ok"
    THEN WriterResult(Ok(<<wr.result.val[1], wr.log>>), wr.log)
    ELSE WriterResult(Error(wr.result.val), wr.log)

\* censor: WriterResult(wr.result, f(wr.log))
censor(wr, f) ==
    WriterResult(wr.result, apply_log_function(f, wr.log))

WriterInit ==
    /\ wm_op \in WriterOps
    /\ wm_entries \in (IF wm_op = "with_log" THEN WriterLogs ELSE {<<>>})
    /\ wm_f \in (IF wm_op = "censor" THEN LogFunctions ELSE {"identity"})
    /\ wm_pc = "start"
    /\ wm_self = NoRaw
    /\ wm_f_calls = <<>>
    /\ wm_next = NoRaw
    /\ wm_result = NoRaw

WriterIdle ==
    /\ wm_op = "then"
    /\ wm_entries = <<>>
    /\ wm_f = "identity"
    /\ wm_pc = "idle"
    /\ wm_self = NoRaw
    /\ wm_f_calls = <<>>
    /\ wm_next = NoRaw
    /\ wm_result = NoRaw

\* the effect is executed: wrapper() starts and awaits self()
WriterCall ==
    /\ wm_pc = "start"
    /\ wm_pc' = "self"
    /\ UNCHANGED <<wm_op, wm_entries, wm_f, wm_self, wm_f_calls, wm_next, wm_result>>

\* self() gave wr: then calls the continuation on Ok and returns on Error;
\* the other methods return
WriterSelfDone ==
    /\ wm_pc = "self"
    /\ \E wr \in WriterResults :
          /\ wm_self' = wr
          /\ IF wm_op = "then" /\ wr.result.tag = "Ok"
             THEN /\ wm_f_calls' = Append(wm_f_calls, wr.result.val)
                  /\ wm_pc' = "cont"
                  /\ UNCHANGED wm_result
             ELSE /\ wm_result' = CASE wm_op = "then" -> then_error(wr)
                                    [] wm_op = "with_log" -> with_log(wr, wm_entries)
                                    [] wm_op = "listen" -> listen(wr)
                                    [] wm_op = "censor" -> censor(wr, wm_f)
                  /\ wm_pc' = "done"
                  /\ UNCHANGED wm_f_calls
    /\ UNCHANGED <<wm_op, wm_entries, wm_f, wm_next>>

\* then: the continuation gave next_wr
WriterContDone ==
    /\ wm_pc = "cont"
    /\ \E next_wr \in WriterResults :
          /\ wm_next' = next_wr
          /\ wm_result' = then_ok(wm_self, next_wr)
    /\ wm_pc' = "done"
    /\ UNCHANGED <<wm_op, wm_entries, wm_f, wm_self, wm_f_calls>>

(***************************************************************************)
(* Flow: the fluent builder over Expr nodes, and compile() / lower()        *)
(***************************************************************************)
\* A Flow is a frozen dataclass around an Expr. Every builder method returns
\* a new Flow whose node refers to the previous Expr; compile() walks the
\* nodes bottom-up and calls each combinator's sugar. Of the nodes, RateLimit
\* is the one whose sugar creates an object at that moment that later
\* executions mutate (rate_limitM builds the _TokenBucket before it defines
\* run), so the Flows here are a Base under a chain of RateLimit nodes that
\* share one policy. Two compile() calls and their executions interleave.
MaxFlowNodes == 2
MaxFlowRuns == 2

FlowCompiles == {"first", "second"}

\* RateLimitPolicy(...) has returned: __post_init__ did not raise
FlowPolicies == {p \in RateLimitPolicyArgs : RateLimitPolicy_post_init(p)}

\* a lowering that takes the buckets already made for the same nodes
RateLimit_lower_shared(heap, nodes, policy, now) ==
    IF Len(heap) >= nodes
    THEN [heap |-> heap, buckets |-> [k \in 1..nodes |-> k]]
    ELSE [heap |-> heap \o [k \in 1..nodes |->
                              _TokenBucket(policy.max_per_second, rate_limit_burst(policy), now)],
          buckets |-> [k \in 1..nodes |-> Len(heap) + k]]

\* Base.lower returns self.value; RateLimit.lower calls
\* rate_limit(self.inner.lower(), policy=self.policy) for each node in turn,
\* and each call of rate_limitM makes a _TokenBucket
RateLimit_lower(heap, nodes, policy, now) ==
    [heap |-> heap \o [k \in 1..nodes |->
                         _TokenBucket(policy.max_per_second, rate_limit_burst(policy), now)],
     buckets |-> [k \in 1..nodes |-> Len(heap) + k]]

\* run() of the wrapper `at` and of those inside it, up to the first await
\* that suspends: bucket.acquire() refills and either takes a token, so that
\* run() goes on to await interp(), which is the next wrapper's run() or, at
\* 0, the Base effect, or sleeps
RECURSIVE flow_run(_, _, _, _)
flow_run(heap, buckets, at, now) ==
    IF at = 0
    THEN [heap |-> heap, at |-> 0, pc |-> "base", wake |-> 0]
    ELSE LET refilled == _refill(heap[buckets[at]], now)
         IN IF acquire_grants(refilled)
            THEN flow_run([heap EXCEPT ![buckets[at]] = acquire_consume(refilled)],
                          buckets, at - 1, now)
            ELSE [heap |-> [heap EXCEPT ![buckets[at]] = refilled], at |-> at,
                  pc |-> "sleep",
                  wake |-> now + acquire_wait_time(refilled)]

FlowInit ==
    /\ fl_policy \in FlowPolicies
    /\ fl_nodes = 0
    /\ fl_heap = <<>>
    /\ fl_compiled = [c \in FlowCompiles |-> FALSE]
    /\ fl_buckets = [c \in FlowCompiles |-> <<>>]
    /\ fl_pc = [c \in FlowCompiles |-> "idle"]
    /\ fl_at = [c \in FlowCompiles |-> 0]
    /\ fl_wake = [c \in FlowCompiles |-> 0]
    /\ fl_runs = [c \in FlowCompiles |-> 0]
    /\ fl_base_runs = 0
    /\ fl_now = 0

FlowIdle ==
    /\ fl_policy = [max_per_second |-> 0, burst |-> None]
    /\ fl_nodes = 0
    /\ fl_heap = <<>>
    /\ fl_compiled = <<>>
    /\ fl_buckets = <<>>
    /\ fl_pc = <<>>
    /\ fl_at = <<>>
    /\ fl_wake = <<>>
    /\ fl_runs = <<>>
    /\ fl_base_runs = 0
    /\ fl_now = 0

\* Flow.rate_limit(policy=...): Flow(RateLimit(self.expr, policy=policy)).
\* The Flow that is compiled twice is the one built when the first compile()
\* is called.
FlowRateLimit ==
    /\ fl_nodes < MaxFlowNodes
    /\ \A c \in FlowCompiles : ~fl_compiled[c]
    /\ fl_nodes' = fl_nodes + 1
    /\ UNCHANGED <<fl_policy, fl_heap, fl_compiled, fl_buckets, fl_pc, fl_at, fl_wake,
                   fl_runs, fl_base_runs, fl_now>>

\* Flow.compile(): self.expr.lower(). "first" names the earlier of the two calls.
FlowCompile(c) ==
    /\ ~fl_compiled[c]
    /\ c = "second" => fl_compiled["first"]
    /\ LET lowered == RateLimit_lower(fl_heap, fl_nodes, fl_policy, fl_now)
       IN /\ fl_heap' = lowered.heap
          /\ fl_buckets' = [fl_buckets EXCEPT ![c] = lowered.buckets]
    /\ fl_compiled' = [fl_compiled EXCEPT ![c] = TRUE]
    /\ UNCHANGED <<fl_policy, fl_nodes, fl_pc, fl_at, fl_wake, fl_runs, fl_base_runs,
                   fl_now>>

\* what one execution does between two suspensions, from the wrapper `at`
flow_continue(c, at) ==
    LET r == flow_run(fl_heap, fl_buckets[c], at, fl_now)
    IN /\ fl_heap' = r.heap
       /\ fl_at' = [fl_at EXCEPT ![c] = r.at]
       /\ fl_pc' = [fl_pc EXCEPT ![c] = r.pc]
       /\ fl_wake' = [fl_wake EXCEPT ![c] = r.wake]
       /\ fl_base_runs' = IF r.pc = "base" THEN fl_base_runs + 1 ELSE fl_base_runs

\* await compiled(): the outermost run() starts
FlowExecute(c) ==
    /\ fl_compiled[c]
    /\ fl_pc[c] = "idle"
    /\ fl_runs[c] < MaxFlowRuns
    /\ fl_runs' = [fl_runs EXCEPT ![c] = @ + 1]
    /\ flow_continue(c, fl_nodes)
    /\ UNCHANGED <<fl_policy, fl_nodes, fl_compiled, fl_buckets, fl_now>>

\* asyncio.sleep(wait_time) is over: acquire() loops
FlowWake(c) ==
    /\ fl_pc[c] = "sleep"
    /\ fl_now >= fl_wake[c]
    /\ flow_continue(c, fl_at[c])
    /\ UNCHANGED <<fl_policy, fl_nodes, fl_compiled, fl_buckets, fl_runs, fl_now>>

\* the Base effect ends and every run() above it returns its raw
FlowBaseDone(c) ==
    /\ fl_pc[c] = "base"
    /\ fl_pc' = [fl_pc EXCEPT ![c] = "idle"]
    /\ UNCHANGED <<fl_policy, fl_nodes, fl_heap, fl_compiled, fl_buckets, fl_at, fl_wake,
                   fl_runs, fl_base_runs, fl_now>>

\* time.monotonic() advances
FlowTick ==
    /\ fl_now < MaxClock
    /\ fl_now' = fl_now + 1
    /\ UNCHANGED <<fl_policy, fl_nodes, fl_heap, fl_compiled, fl_buckets, fl_pc, fl_at,
                   fl_wake, fl_runs, fl_base_runs>>

(***************************************************************************)
(* Construction: policies, and combinators called with their inputs         *)
(***************************************************************************)
\* What happens before an effect runs: the caller constructs a policy (a
\* frozen dataclass whose __post_init__ validates the fields), calls the
\* combinator, which defines run() and returns wrap(run), and later awaits
\* the effect, which is when the body of run() is executed.
MaxInputs == 2

PolicyCombinators == {"retry", "repeat_until", "rate_limit", "race_ok"}
VariadicCombinators == {"race", "race_ok", "fallback_chain"}
ConstructCombinators == PolicyCombinators \cup VariadicCombinators

NoPolicyArgs == [none |-> TRUE]

\* what a caller may pass to the constructors, valid or not
RetryPolicyArgs ==
    {RetryPolicy(t, b, NoPredicate) : t \in -1..MaxTimes, b \in Backoffs}
RepeatPolicyArgs ==
    {RepeatPolicy(n, d) : n \in -1..MaxRounds, d \in -1..MaxDelay}
RaceOkPolicyArgs ==
    {RaceOkPolicy(c, e) : c \in BOOLEAN, e \in {"first", "last", "all"}}

PolicyArgs(combinator) ==
    CASE combinator = "retry" -> RetryPolicyArgs
      [] combinator = "repeat_until" -> RepeatPolicyArgs
      [] combinator = "rate_limit" -> RateLimitPolicyArgs
      [] combinator = "race_ok" -> RaceOkPolicyArgs
      [] OTHER -> {NoPolicyArgs}

\* one interp for retry, repeat_until and rate_limit; *interps for the others
InputCounts(combinator) ==
    IF combinator \in VariadicCombinators THEN 0..MaxInputs ELSE {1}

\* RetryPolicy.__post_init__: FALSE where it raises ValueError
RetryPolicy_post_init(policy) ==
    ~(policy.times < 1)

\* a RepeatPolicy.__post_init__ that looks at max_rounds only
RepeatPolicy_post_init_rounds_only(policy) ==
    ~(policy.max_rounds < 1)

\* RepeatPolicy.__post_init__
RepeatPolicy_post_init(policy) ==
    /\ ~(policy.max_rounds < 1)
    /\ ~(policy.delay_seconds < 0)

\* RaceOkPolicy.__post_init__
RaceOkPolicy_post_init(policy) ==
    ~(policy.error_strategy \notin {"first", "last"})

\* the dataclass constructor of the combinator's policy class
policy_post_init(combinator, args) ==
    CASE combinator = "retry" -> RetryPolicy_post_init(args)
      [] combinator = "repeat_until" -> RepeatPolicy_post_init(args)
      [] combinator = "rate_limit" -> RateLimitPolicy_post_init(args)
      [] combinator = "race_ok" -> RaceOkPolicy_post_init(args)

\* the body of the combinator function: `async def run(): ...` followed by
\* `return wrap(run)`; no statement of it looks at interps or raises
combinator_call(combinator, n) == "returned"

\* the first statements of run(), up to its first await: raceM and race_okM
\* test `if not interps`, fallback_chainM finds `last is None` after a loop
\* over nothing; otherwise race starts every effect and the others their first
run_start(combinator, n) ==
    IF combinator \in VariadicCombinators /\ n = 0
    THEN [pc |-> "done", started |-> 0, raised |-> "ValueError"]
    ELSE [pc |-> "running",
          started |-> IF combinator \in {"race", "race_ok"} THEN n ELSE 1,
          raised |-> "none"]

ConstructInit ==
    /\ cs_combinator \in ConstructCombinators
    /\ cs_args \in PolicyArgs(cs_combinator)
    /\ cs_n \in InputCounts(cs_combinator)
    /\ cs_policy = "none"
    /\ cs_effect = "none"
    /\ cs_pc = "idle"
    /\ cs_started = 0
    /\ cs_raised = "none"

ConstructIdle ==
    /\ cs_combinator = "none"
    /\ cs_args = NoPolicyArgs
    /\ cs_n = 0
    /\ cs_policy = "none"
    /\ cs_effect = "none"
    /\ cs_pc = "idle"
    /\ cs_started = 0
    /\ cs_raised = "none"

\* RetryPolicy(...) / RepeatPolicy(...) / RateLimitPolicy(...) / RaceOkPolicy(...)
ConstructPolicy ==
    /\ cs_combinator \in PolicyCombinators
    /\ cs_policy = "none"
    /\ cs_policy' = IF policy_post_init(cs_combinator, cs_args) THEN "constructed"
                    ELSE "rejected"
    /\ UNCHANGED <<cs_combinator, cs_args, cs_n, cs_effect, cs_pc, cs_started, cs_raised>>

\* the combinator is called with its effects and, where it takes one, with
\* the policy object, which exists only if its constructor returned
ConstructCall ==
    /\ cs_effect = "none"
    /\ cs_combinator \in PolicyCombinators => cs_policy = "constructed"
    /\ cs_effect' = combinator_call(cs_combinator, cs_n)
    /\ UNCHANGED <<cs_combinator, cs_args, cs_n, cs_policy, cs_pc, cs_started, cs_raised>>

\* await effect(): run() starts
ConstructExecute ==
    /\ cs_effect = "returned"
    /\ cs_pc = "idle"
    /\ LET r == run_start(cs_combinator, cs_n)
       IN /\ cs_pc' = r.pc
          /\ cs_started' = r.started
          /\ cs_raised' = r.raised
    /\ UNCHANGED <<cs_combinator, cs_args, cs_n, cs_policy, cs_effect>>

\* run() returns
ConstructFinish ==
    /\ cs_pc = "running"
    /\ cs_pc' = "done"
    /\ UNCHANGED <<cs_combinator, cs_args, cs_n, cs_policy, cs_effect, cs_started,
                   cs_raised>>

(***************************************************************************)
(* best_of / best_of_many                                                  *)
(***************************************************************************)
\* Both are parallel(*candidates).map(lambda values: max(values, key=key)):
\* best_of passes n references to one effect, best_of_many the effects given.
\* Every execution of a candidate returns a Result of its own or raises.
BestSugars == {"best_of", "best_of_many"}

MaxCandidates == 3
MaxKey == 1

BestCandidates == 1..bo_n

\* the key functions: a number for every value, equal numbers included
BestKeys == [Values -> 0..MaxKey]

\* a max that keeps the last of the items with the largest key
RECURSIVE max_keeping_last(_, _, _, _)
max_keeping_last(values, key, k, best) ==
    IF k > Len(values) THEN best
    ELSE max_keeping_last(values, key, k + 1,
                          IF key[values[k]] >= key[best] THEN values[k] ELSE best)

\* max(values, key=key) of a non-empty list, from item k on with `best` the
\* largest so far: an item replaces it only when its key is greater
RECURSIVE max(_, _, _, _)
max(values, key, k, best) ==
    IF k > Len(values) THEN best
    ELSE max(values, key, k + 1,
             IF key[values[k]] > key[best] THEN values[k] ELSE best)

\* .map(lambda values: max(values, key=key)) on what parallel returned: the
\* function is applied to the value of an Ok, and max() of an empty list
\* raises ValueError; an Error goes through
best_map(result, key) ==
    IF result.tag = "Error" THEN Return(result)
    ELSE IF result.val = <<>> THEN Raise("ValueError")
    ELSE Return(Ok(max(result.val, key, 2, result.val[1])))

BestInit ==
    /\ bo_sugar \in BestSugars
    /\ bo_n \in 0..MaxCandidates
    /\ bo_key \in BestKeys
    /\ bo_pc = "start"
    /\ bo_task = [i \in BestCandidates |-> "created"]
    /\ bo_raw = [i \in BestCandidates |-> NoRaw]
    /\ bo_order = <<>>
    /\ bo_result = NoOutcome

BestIdle ==
    /\ bo_sugar = "best_of"
    /\ bo_n = 0
    /\ bo_key = <<>>
    /\ bo_pc = "idle"
    /\ bo_task = <<>>
    /\ bo_raw = <<>>
    /\ bo_order = <<>>
    /\ bo_result = NoOutcome

\* parallelM.run: asyncio.gather(*(i() for i in interps)) makes a task of
\* every candidate
BestStart ==
    /\ bo_pc = "start"
    /\ bo_task' = [i \in BestCandidates |-> "running"]
    /\ bo_pc' = "gather"
    /\ UNCHANGED <<bo_sugar, bo_n, bo_key, bo_raw, bo_order, bo_result>>

\* candidate i ends, with a Result or an exception
BestComplete(i) ==
    /\ bo_task[i] = "running"
    /\ \/ \E r \in Results :
            /\ bo_raw' = [bo_raw EXCEPT ![i] = r]
            /\ bo_task' = [bo_task EXCEPT ![i] = "done"]
       \/ /\ bo_task' = [bo_task EXCEPT ![i] = "raised"]
          /\ UNCHANGED bo_raw
    /\ bo_order' = Append(bo_order, i)
    /\ UNCHANGED <<bo_sugar, bo_n, bo_key, bo_pc, bo_result>>

\* every task is done: parallelM.run scans the raws in input order and
\* returns, and the mapped function is applied to what it returned
BestGathered ==
    /\ bo_pc = "gather"
    /\ \A i \in BestCandidates : bo_task[i] = "done"
    /\ bo_result' = best_map(par_scan("parallel", gather(bo_raw, bo_order), 1, <<>>), bo_key)
    /\ bo_pc' = "done"
    /\ UNCHANGED <<bo_sugar, bo_n, bo_key, bo_task, bo_raw, bo_order>>

\* a task ended with an exception: gather raises it in parallelM.run, and
\* the exception goes through map to the caller
BestGatherRaised ==
    /\ bo_pc = "gather"
    /\ \E i \in BestCandidates : bo_task[i] = "raised"
    /\ \E x \in Exceptions : bo_result' = Raise(x)
    /\ bo_pc' = "done"
    /\ UNCHANGED <<bo_sugar, bo_n, bo_key, bo_task, bo_raw, bo_order>>

(***************************************************************************)
(* rate_limit over unbounded time                                          *)
(***************************************************************************)
\* time.monotonic() has no fixed origin, and only differences of its values
\* are used.  Once rl_now has reached MaxClock a further second is recorded
\* by moving every stored time one second back instead.  A time that is 0
\* already stays there: for the end of a sleep that is exact (the sleep is
\* over for good), and for last_refill the second is paid into the bucket at
\* once, which _refill would do later with the same outcome since
\* min(burst, min(burst, tokens + r) + e * r) = min(burst, tokens + (e + 1) * r).
one_second_back(t) == IF t > 0 THEN t - 1 ELSE 0

RateLimitTickOn ==
    /\ rl_now = MaxClock
    /\ rl_bucket' = [w \in Wrappers |->
          IF rl_bucket[w].last_refill > 0
          THEN [rl_bucket[w] EXCEPT !.last_refill = @ - 1]
          ELSE [rl_bucket[w] EXCEPT !.tokens =
                   Min(rl_bucket[w].burst * PartsPerToken, @ + rl_bucket[w].max_per_second)]]
    /\ rl_wake' = [c \in Callers |-> one_second_back(rl_wake[c])]
    /\ rl_created_at' = [w \in Wrappers |-> one_second_back(rl_created_at[w])]
    /\ rl_last_start' = [w \in Wrappers |-> one_second_back(rl_last_start[w])]
    /\ UNCHANGED <<rl_args, rl_wrapper, rl_now, rl_pc, rl_on, rl_calls, rl_granted,
                   rl_finished>>

(***************************************************************************)
(* Specifications: one per combinator, the others idle                     *)
(***************************************************************************)
othersThanBracket ==
    <<retryVars, timeoutVars, raceVars, rateLimitVars, fallbackVars, repeatVars, guardVars,
      validateVars, batchVars, parVars, seqVars, logVars, writerVars, flowVars, constructVars,
      bestVars>>
InitBracket ==
    /\ BracketInit
    /\ RetryIdle
    /\ TimeoutIdle
    /\ RaceIdle
    /\ RateLimitIdle
    /\ FallbackIdle
    /\ RepeatIdle
    /\ GuardIdle
    /\ ValidateIdle
    /\ BatchIdle
    /\ ParIdle
    /\ SeqIdle
    /\ LogIdle
    /\ WriterIdle
    /\ FlowIdle
    /\ ConstructIdle
    /\ BestIdle
NextBracket ==
    \/ BracketAcquire /\ UNCHANGED othersThanBracket
    \/ BracketUseStart /\ UNCHANGED othersThanBracket
    \/ BracketUseEnd /\ UNCHANGED othersThanBracket
    \/ BracketRelease /\ UNCHANGED othersThanBracket
SpecBracket == InitBracket /\ [][NextBracket]_vars

InitBracketOnError ==
    /\ BracketOnErrorInit
    /\ RetryIdle
    /\ TimeoutIdle
    /\ RaceIdle
    /\ RateLimitIdle
    /\ FallbackIdle
    /\ RepeatIdle
    /\ GuardIdle
    /\ ValidateIdle
    /\ BatchIdle
    /\ ParIdle
    /\ SeqIdle
    /\ LogIdle
    /\ WriterIdle
    /\ FlowIdle
    /\ ConstructIdle
    /\ BestIdle
NextBracketOnError ==
    \/ BracketOnErrorAcquire /\ UNCHANGED othersThanBracket
    \/ BracketOnErrorUseStart /\ UNCHANGED othersThanBracket
    \/ BracketOnErrorUseEnd /\ UNCHANGED othersThanBracket
    \/ BracketOnErrorRelease /\ UNCHANGED othersThanBracket
SpecBracketOnError == InitBracketOnError /\ [][NextBracketOnError]_vars

othersThanRetry ==
    <<bracketVars, timeoutVars, raceVars, rateLimitVars, fallbackVars, repeatVars, guardVars,
      validateVars, batchVars, parVars, seqVars, logVars, writerVars, flowVars, constructVars,
      bestVars>>
InitRetry ==
    /\ RetryInit
    /\ BracketIdle
    /\ TimeoutIdle
    /\ RaceIdle
    /\ RateLimitIdle
    /\ FallbackIdle
    /\ RepeatIdle
    /\ GuardIdle
    /\ ValidateIdle
    /\ BatchIdle
    /\ ParIdle
    /\ SeqIdle
    /\ LogIdle
    /\ WriterIdle
    /\ FlowIdle
    /\ ConstructIdle
    /\ BestIdle
NextRetry ==
    \/ \E s \in RetrySugars : RetryCall(s) /\ UNCHANGED othersThanRetry
    \/ \E s \in RetrySugars : RetryResume(s) /\ UNCHANGED othersThanRetry
    \/ \E s \in RetrySugars : RetryWake(s) /\ UNCHANGED othersThanRetry
SpecRetry == InitRetry /\ [][NextRetry]_vars

othersThanTimeout ==
    <<bracketVars, retryVars, raceVars, rateLimitVars, fallbackVars, repeatVars, guardVars,
      validateVars, batchVars, parVars, seqVars, logVars, writerVars, flowVars, constructVars,
      bestVars>>
InitTimeout ==
    /\ TimeoutInit
    /\ BracketIdle
    /\ RetryIdle
    /\ RaceIdle
    /\ RateLimitIdle
    /\ FallbackIdle
    /\ RepeatIdle
    /\ GuardIdle
    /\ ValidateIdle
    /\ BatchIdle
    /\ ParIdle
    /\ SeqIdle
    /\ LogIdle
    /\ WriterIdle
    /\ FlowIdle
    /\ ConstructIdle
    /\ BestIdle
NextTimeout ==
    \/ TimeoutStart /\ UNCHANGED othersThanTimeout
    \/ TimeoutTick /\ UNCHANGED othersThanTimeout
    \/ TimeoutInnerResume /\ UNCHANGED othersThanTimeout
    \/ TimeoutDeadline /\ UNCHANGED othersThanTimeout
    \/ TimeoutInnerCancelled /\ UNCHANGED othersThanTimeout
    \/ TimeoutExpiredReturn /\ UNCHANGED othersThanTimeout
    \/ TimeoutInnerDone /\ UNCHANGED othersThanTimeout
SpecTimeout == InitTimeout /\ [][NextTimeout]_vars

othersThanRace ==
    <<bracketVars, retryVars, timeoutVars, rateLimitVars, fallbackVars, repeatVars, guardVars,
      validateVars, batchVars, parVars, seqVars, logVars, writerVars, flowVars, constructVars,
      bestVars>>
InitRace ==
    /\ RaceInit
    /\ BracketIdle
    /\ RetryIdle
    /\ TimeoutIdle
    /\ RateLimitIdle
    /\ FallbackIdle
    /\ RepeatIdle
    /\ GuardIdle
    /\ ValidateIdle
    /\ BatchIdle
    /\ ParIdle
    /\ SeqIdle
    /\ LogIdle
    /\ WriterIdle
    /\ FlowIdle
    /\ ConstructIdle
    /\ BestIdle
NextRace ==
    \/ RaceStart /\ UNCHANGED othersThanRace
    \/ \E i \in Branches : RaceBranchComplete(i) /\ UNCHANGED othersThanRace
    \/ \E i \in Branches : RaceBranchCancelled(i) /\ UNCHANGED othersThanRace
    \/ RaceWake /\ UNCHANGED othersThanRace
    \/ RaceOkStep /\ UNCHANGED othersThanRace
SpecRace == InitRace /\ [][NextRace]_vars

othersThanRateLimit ==
    <<bracketVars, retryVars, timeoutVars, raceVars, fallbackVars, repeatVars, guardVars,
      validateVars, batchVars, parVars, seqVars, logVars, writerVars, flowVars, constructVars,
      bestVars>>
InitRateLimit ==
    /\ RateLimitInit
    /\ BracketIdle
    /\ RetryIdle
    /\ TimeoutIdle
    /\ RaceIdle
    /\ FallbackIdle
    /\ RepeatIdle
    /\ GuardIdle
    /\ ValidateIdle
    /\ BatchIdle
    /\ ParIdle
    /\ SeqIdle
    /\ LogIdle
    /\ WriterIdle
    /\ FlowIdle
    /\ ConstructIdle
    /\ BestIdle
NextRateLimit ==
    \/ RateLimitTick /\ UNCHANGED othersThanRateLimit
    \/ \E w \in Wrappers : RateLimitCreate(w) /\ UNCHANGED othersThanRateLimit
    \/ \E c \in Callers, w \in Wrappers : RateLimitCall(c, w) /\ UNCHANGED othersThanRateLimit
    \/ \E c \in Callers : RateLimitWake(c) /\ UNCHANGED othersThanRateLimit
    \/ \E c \in Callers : RateLimitInnerDone(c) /\ UNCHANGED othersThanRateLimit
SpecRateLimit == InitRateLimit /\ [][NextRateLimit]_vars

othersThanFallback ==
    <<bracketVars, retryVars, timeoutVars, raceVars, rateLimitVars, repeatVars, guardVars,
      validateVars, batchVars, parVars, seqVars, logVars, writerVars, flowVars, constructVars,
      bestVars>>
InitFallback ==
    /\ FallbackInit
    /\ BracketIdle
    /\ RetryIdle
    /\ TimeoutIdle
    /\ RaceIdle
    /\ RateLimitIdle
    /\ RepeatIdle
    /\ GuardIdle
    /\ ValidateIdle
    /\ BatchIdle
    /\ ParIdle
    /\ SeqIdle
    /\ LogIdle
    /\ WriterIdle
    /\ FlowIdle
    /\ ConstructIdle
    /\ BestIdle
NextFallback ==
    \/ FallbackCall /\ UNCHANGED othersThanFallback
    \/ FallbackResume /\ UNCHANGED othersThanFallback
    \/ FallbackEmpty /\ UNCHANGED othersThanFallback
SpecFallback == InitFallback /\ [][NextFallback]_vars

othersThanRepeat ==
    <<bracketVars, retryVars, timeoutVars, raceVars, rateLimitVars, fallbackVars, guardVars,
      validateVars, batchVars, parVars, seqVars, logVars, writerVars, flowVars, constructVars,
      bestVars>>
InitRepeat ==
    /\ RepeatInit
    /\ BracketIdle
    /\ RetryIdle
    /\ TimeoutIdle
    /\ RaceIdle
    /\ RateLimitIdle
    /\ FallbackIdle
    /\ GuardIdle
    /\ ValidateIdle
    /\ BatchIdle
    /\ ParIdle
    /\ SeqIdle
    /\ LogIdle
    /\ WriterIdle
    /\ FlowIdle
    /\ ConstructIdle
    /\ BestIdle
NextRepeat ==
    \/ RepeatCall /\ UNCHANGED othersThanRepeat
    \/ RepeatResume /\ UNCHANGED othersThanRepeat
    \/ RepeatWake /\ UNCHANGED othersThanRepeat
SpecRepeat == InitRepeat /\ [][NextRepeat]_vars

othersThanGuard ==
    <<bracketVars, retryVars, timeoutVars, raceVars, rateLimitVars, fallbackVars, repeatVars,
      validateVars, batchVars, parVars, seqVars, logVars, writerVars, flowVars, constructVars,
      bestVars>>
InitGuard ==
    /\ GuardInit
    /\ BracketIdle
    /\ RetryIdle
    /\ TimeoutIdle
    /\ RaceIdle
    /\ RateLimitIdle
    /\ FallbackIdle
    /\ RepeatIdle
    /\ ValidateIdle
    /\ BatchIdle
    /\ ParIdle
    /\ SeqIdle
    /\ LogIdle
    /\ WriterIdle
    /\ FlowIdle
    /\ ConstructIdle
    /\ BestIdle
NextGuard ==
    \/ \E s \in GuardSugars : GuardCall(s) /\ UNCHANGED othersThanGuard
    \/ \E s \in GuardSugars : GuardResume(s) /\ UNCHANGED othersThanGuard
SpecGuard == InitGuard /\ [][NextGuard]_vars

othersThanValidate ==
    <<bracketVars, retryVars, timeoutVars, raceVars, rateLimitVars, fallbackVars, repeatVars,
      guardVars, batchVars, parVars, seqVars, logVars, writerVars, flowVars, constructVars,
      bestVars>>
InitValidate ==
    /\ ValidateInit
    /\ BracketIdle
    /\ RetryIdle
    /\ TimeoutIdle
    /\ RaceIdle
    /\ RateLimitIdle
    /\ FallbackIdle
    /\ RepeatIdle
    /\ GuardIdle
    /\ BatchIdle
    /\ ParIdle
    /\ SeqIdle
    /\ LogIdle
    /\ WriterIdle
    /\ FlowIdle
    /\ ConstructIdle
    /\ BestIdle
NextValidate ==
    \/ ValidateStart /\ UNCHANGED othersThanValidate
    \/ \E i \in ValidateItems : ValidateComplete(i) /\ UNCHANGED othersThanValidate
    \/ ValidateGathered /\ UNCHANGED othersThanValidate
SpecValidate == InitValidate /\ [][NextValidate]_vars

othersThanBatch ==
    <<bracketVars, retryVars, timeoutVars, raceVars, rateLimitVars, fallbackVars, repeatVars,
      guardVars, validateVars, parVars, seqVars, logVars, writerVars, flowVars, constructVars,
      bestVars>>
InitBatch ==
    /\ BatchInit
    /\ BracketIdle
    /\ RetryIdle
    /\ TimeoutIdle
    /\ RaceIdle
    /\ RateLimitIdle
    /\ FallbackIdle
    /\ RepeatIdle
    /\ GuardIdle
    /\ ValidateIdle
    /\ ParIdle
    /\ SeqIdle
    /\ LogIdle
    /\ WriterIdle
    /\ FlowIdle
    /\ ConstructIdle
    /\ BestIdle
NextBatch ==
    \/ BatchStart /\ UNCHANGED othersThanBatch
    \/ \E i \in BatchItems : BatchProcess(i) /\ UNCHANGED othersThanBatch
    \/ \E i \in BatchItems : BatchResume(i) /\ UNCHANGED othersThanBatch
    \/ \E i \in BatchItems : BatchComplete(i) /\ UNCHANGED othersThanBatch
    \/ BatchGathered /\ UNCHANGED othersThanBatch
    \/ BatchGatherRaised /\ UNCHANGED othersThanBatch
SpecBatch == InitBatch /\ [][NextBatch]_vars

InitBatchLive ==
    /\ BatchAnyInit
    /\ BracketIdle
    /\ RetryIdle
    /\ TimeoutIdle
    /\ RaceIdle
    /\ RateLimitIdle
    /\ FallbackIdle
    /\ RepeatIdle
    /\ GuardIdle
    /\ ValidateIdle
    /\ ParIdle
    /\ SeqIdle
    /\ LogIdle
    /\ WriterIdle
    /\ FlowIdle
    /\ ConstructIdle
    /\ BestIdle
NextBatchLive ==
    \/ BatchStart /\ UNCHANGED othersThanBatch
    \/ \E i \in BatchItems : BatchProcess(i) /\ UNCHANGED othersThanBatch
    \/ \E i \in BatchItems : BatchResume(i) /\ UNCHANGED othersThanBatch
    \/ \E i \in BatchItems : BatchComplete(i) /\ UNCHANGED othersThanBatch
    \/ BatchGathered /\ UNCHANGED othersThanBatch
    \/ BatchGatherRaised /\ UNCHANGED othersThanBatch
SpecBatchLive ==
    /\ InitBatchLive
    /\ [][NextBatchLive]_vars
    /\ \A i \in 1..MaxBatchItems : WF_batchVars(i \in BatchItems /\ BatchProcess(i))
    /\ \A i \in 1..MaxBatchItems : WF_batchVars(i \in BatchItems /\ BatchResume(i))
    /\ \A i \in 1..MaxBatchItems : WF_batchVars(i \in BatchItems /\ BatchComplete(i))
    /\ WF_batchVars(BatchStart)
    /\ WF_batchVars(BatchGathered)
    /\ WF_batchVars(BatchGatherRaised)

othersThanPar ==
    <<bracketVars, retryVars, timeoutVars, raceVars, rateLimitVars, fallbackVars, repeatVars,
      guardVars, validateVars, batchVars, seqVars, logVars, writerVars, flowVars,
      constructVars, bestVars>>
InitPar ==
    /\ ParInit
    /\ BracketIdle
    /\ RetryIdle
    /\ TimeoutIdle
    /\ RaceIdle
    /\ RateLimitIdle
    /\ FallbackIdle
    /\ RepeatIdle
    /\ GuardIdle
    /\ ValidateIdle
    /\ BatchIdle
    /\ SeqIdle
    /\ LogIdle
    /\ WriterIdle
    /\ FlowIdle
    /\ ConstructIdle
    /\ BestIdle
NextPar ==
    \/ ParStart /\ UNCHANGED othersThanPar
    \/ \E i \in ParBranches : ParComplete(i) /\ UNCHANGED othersThanPar
    \/ ParGathered /\ UNCHANGED othersThanPar
    \/ ParGatherRaised /\ UNCHANGED othersThanPar
SpecPar == InitPar /\ [][NextPar]_vars

othersThanSeq ==
    <<bracketVars, retryVars, timeoutVars, raceVars, rateLimitVars, fallbackVars, repeatVars,
      guardVars, validateVars, batchVars, parVars, logVars, writerVars, flowVars,
      constructVars, bestVars>>
InitSeq ==
    /\ SeqInit
    /\ BracketIdle
    /\ RetryIdle
    /\ TimeoutIdle
    /\ RaceIdle
    /\ RateLimitIdle
    /\ FallbackIdle
    /\ RepeatIdle
    /\ GuardIdle
    /\ ValidateIdle
    /\ BatchIdle
    /\ ParIdle
    /\ LogIdle
    /\ WriterIdle
    /\ FlowIdle
    /\ ConstructIdle
    /\ BestIdle
NextSeq ==
    \/ SeqEmpty /\ UNCHANGED othersThanSeq
    \/ SeqCall /\ UNCHANGED othersThanSeq
    \/ SeqResume /\ UNCHANGED othersThanSeq
SpecSeq == InitSeq /\ [][NextSeq]_vars

othersThanLog ==
    <<bracketVars, retryVars, timeoutVars, raceVars, rateLimitVars, fallbackVars, repeatVars,
      guardVars, validateVars, batchVars, parVars, seqVars, writerVars, flowVars,
      constructVars, bestVars>>
InitLog ==
    /\ LogInit
    /\ BracketIdle
    /\ RetryIdle
    /\ TimeoutIdle
    /\ RaceIdle
    /\ RateLimitIdle
    /\ FallbackIdle
    /\ RepeatIdle
    /\ GuardIdle
    /\ ValidateIdle
    /\ BatchIdle
    /\ ParIdle
    /\ SeqIdle
    /\ WriterIdle
    /\ FlowIdle
    /\ ConstructIdle
    /\ BestIdle
NextLog ==
    \/ LogOf /\ UNCHANGED othersThanLog
    \/ LogCombine /\ UNCHANGED othersThanLog
    \/ LogTell /\ UNCHANGED othersThanLog
SpecLog == InitLog /\ [][NextLog]_vars

othersThanWriter ==
    <<bracketVars, retryVars, timeoutVars, raceVars, rateLimitVars, fallbackVars, repeatVars,
      guardVars, validateVars, batchVars, parVars, seqVars, logVars, flowVars, constructVars,
      bestVars>>
InitWriter ==
    /\ WriterInit
    /\ BracketIdle
    /\ RetryIdle
    /\ TimeoutIdle
    /\ RaceIdle
    /\ RateLimitIdle
    /\ FallbackIdle
    /\ RepeatIdle
    /\ GuardIdle
    /\ ValidateIdle
    /\ BatchIdle
    /\ ParIdle
    /\ SeqIdle
    /\ LogIdle
    /\ FlowIdle
    /\ ConstructIdle
    /\ BestIdle
NextWriter ==
    \/ WriterCall /\ UNCHANGED othersThanWriter
    \/ WriterSelfDone /\ UNCHANGED othersThanWriter
    \/ WriterContDone /\ UNCHANGED othersThanWriter
SpecWriter == InitWriter /\ [][NextWriter]_vars

othersThanFlow ==
    <<bracketVars, retryVars, timeoutVars, raceVars, rateLimitVars, fallbackVars, repeatVars,
      guardVars, validateVars, batchVars, parVars, seqVars, logVars, writerVars,
      constructVars, bestVars>>
InitFlow ==
    /\ FlowInit
    /\ BracketIdle
    /\ RetryIdle
    /\ TimeoutIdle
    /\ RaceIdle
    /\ RateLimitIdle
    /\ FallbackIdle
    /\ RepeatIdle
    /\ GuardIdle
    /\ ValidateIdle
    /\ BatchIdle
    /\ ParIdle
    /\ SeqIdle
    /\ LogIdle
    /\ WriterIdle
    /\ ConstructIdle
    /\ BestIdle
NextFlow ==
    \/ FlowRateLimit /\ UNCHANGED othersThanFlow
    \/ \E c \in FlowCompiles : FlowCompile(c) /\ UNCHANGED othersThanFlow
    \/ \E c \in FlowCompiles : FlowExecute(c) /\ UNCHANGED othersThanFlow
    \/ \E c \in FlowCompiles : FlowWake(c) /\ UNCHANGED othersThanFlow
    \/ \E c \in FlowCompiles : FlowBaseDone(c) /\ UNCHANGED othersThanFlow
    \/ FlowTick /\ UNCHANGED othersThanFlow
SpecFlow == InitFlow /\ [][NextFlow]_vars

othersThanConstruct ==
    <<bracketVars, retryVars, timeoutVars, raceVars, rateLimitVars, fallbackVars, repeatVars,
      guardVars, validateVars, batchVars, parVars, seqVars, logVars, writerVars, flowVars,
      bestVars>>
InitConstruct ==
    /\ ConstructInit
    /\ BracketIdle
    /\ RetryIdle
    /\ TimeoutIdle
    /\ RaceIdle
    /\ RateLimitIdle
    /\ FallbackIdle
    /\ RepeatIdle
    /\ GuardIdle
    /\ ValidateIdle
    /\ BatchIdle
    /\ ParIdle
    /\ SeqIdle
    /\ LogIdle
    /\ WriterIdle
    /\ FlowIdle
    /\ BestIdle
NextConstruct ==
    \/ ConstructPolicy /\ UNCHANGED othersThanConstruct
    \/ ConstructCall /\ UNCHANGED othersThanConstruct
    \/ ConstructExecute /\ UNCHANGED othersThanConstruct
    \/ ConstructFinish /\ UNCHANGED othersThanConstruct
SpecConstruct == InitConstruct /\ [][NextConstruct]_vars

othersThanBest ==
    <<bracketVars, retryVars, timeoutVars, raceVars, rateLimitVars, fallbackVars, repeatVars,
      guardVars, validateVars, batchVars, parVars, seqVars, logVars, writerVars, flowVars,
      constructVars>>
InitBest ==
    /\ BestInit
    /\ BracketIdle
    /\ RetryIdle
    /\ TimeoutIdle
    /\ RaceIdle
    /\ RateLimitIdle
    /\ FallbackIdle
    /\ RepeatIdle
    /\ GuardIdle
    /\ ValidateIdle
    /\ BatchIdle
    /\ ParIdle
    /\ SeqIdle
    /\ LogIdle
    /\ WriterIdle
    /\ FlowIdle
    /\ ConstructIdle
NextBest ==
    \/ BestStart /\ UNCHANGED othersThanBest
    \/ \E i \in BestCandidates : BestComplete(i) /\ UNCHANGED othersThanBest
    \/ BestGathered /\ UNCHANGED othersThanBest
    \/ BestGatherRaised /\ UNCHANGED othersThanBest
SpecBest == InitBest /\ [][NextBest]_vars

InitRateLimitLive ==
    /\ RateLimitInit
    /\ BracketIdle
    /\ RetryIdle
    /\ TimeoutIdle
    /\ RaceIdle
    /\ FallbackIdle
    /\ RepeatIdle
    /\ GuardIdle
    /\ ValidateIdle
    /\ BatchIdle
    /\ ParIdle
    /\ SeqIdle
    /\ LogIdle
    /\ WriterIdle
    /\ FlowIdle
    /\ ConstructIdle
    /\ BestIdle
NextRateLimitLive ==
    \/ RateLimitTick /\ UNCHANGED othersThanRateLimit
    \/ RateLimitTickOn /\ UNCHANGED othersThanRateLimit
    \/ \E w \in Wrappers : RateLimitCreate(w) /\ UNCHANGED othersThanRateLimit
    \/ \E c \in Callers, w \in Wrappers : RateLimitCall(c, w) /\ UNCHANGED othersThanRateLimit
    \/ \E c \in Callers : RateLimitWake(c) /\ UNCHANGED othersThanRateLimit
    \/ \E c \in Callers : RateLimitInnerDone(c) /\ UNCHANGED othersThanRateLimit
SpecRateLimitLive ==
    /\ InitRateLimitLive
    /\ [][NextRateLimitLive]_vars
    /\ WF_rateLimitVars(RateLimitTick \/ RateLimitTickOn)
    /\ \A c \in Callers : WF_rateLimitVars(RateLimitWake(c))
    /\ \A c \in Callers : WF_rateLimitVars(RateLimitInnerDone(c))

InitGathered ==
    \/ InitBatch
    \/ InitPar
NextGathered ==
    \/ NextBatch
    \/ NextPar
SpecGathered == InitGathered /\ [][NextGathered]_vars

InitSequential ==
    \/ InitSeq
    \/ InitRetry
    \/ InitRepeat
    \/ InitFallback
NextSequential ==
    \/ NextSeq
    \/ NextRetry
    \/ NextRepeat
    \/ NextFallback
SpecSequential == InitSequential /\ [][NextSequential]_vars

(***************************************************************************)
(* Claims about bracket (checked under SpecBracket)                        *)
(***************************************************************************)
\* the positions in b_events of the invocations of callback `name`
EventsOf(name) == {i \in 1..Len(b_events) : b_events[i][1] = name}
BracketAcquired == b_acquire # NoRaw /\ extract_acquire(b_variant, b_acquire).tag = "Ok"
BracketAcquireFailed == b_acquire # NoRaw /\ extract_acquire(b_variant, b_acquire).tag = "Error"

\* C1: release is invoked if and only if acquire succeeded, exactly once, on
\* the acquired resource and only after use has finished (returned Ok,
\* returned Error or raised); when acquire fails neither use nor release is
\* ever invoked.
C1_ReleaseIffAcquired ==
    /\ Cardinality(EventsOf("release")) <= 1
    /\ Cardinality(EventsOf("use")) <= 1
    /\ \A i \in EventsOf("release") :
        /\ BracketAcquired
        /\ b_events[i][2] = get_resource(b_variant, b_acquire)
        /\ \E j \in EventsOf("use_end") : j < i
    /\ BracketAcquireFailed => EventsOf("use") = {} /\ EventsOf("release") = {}
    /\ (b_pc = "done" /\ BracketAcquired) =>
            Cardinality(EventsOf("release")) = 1 /\ Cardinality(EventsOf("use")) = 1

\* acquire succeeded, use raised, and the bracket is over
C1_Witness ==
    /\ b_pc = "done"
    /\ BracketAcquired
    /\ b_use.kind = "raise"
    /\ Cardinality(EventsOf("release")) = 1

\* what use alone makes the caller observe: its exception, or its raw (for
\* bracket_w with the acquire log in front of the use log)
C2_Primary ==
    IF b_use.kind = "raise"
    THEN Raise(b_use.val.val)
    ELSE IF b_variant = "bracket"
         THEN Return(b_use.val)
         ELSE Return(WriterResult(b_use.val.result, b_acquire.log \o b_use.val.log))

\* C2: an exception raised by release never changes the primary result: once
\* release has run, the caller observes what use produced, whether release
\* returned or raised.
C2_ReleaseNeverMasks ==
    (b_pc = "done" /\ b_release # "none") => b_result = C2_Primary

\* release raised after use returned a value
C2_Witness ==
    /\ b_pc = "done"
    /\ b_release = "raise"
    /\ b_use.kind = "return"
    /\ b_result = C2_Primary

(***************************************************************************)
(* Claims about bracket_on_error (checked under SpecBracketOnError)        *)
(***************************************************************************)
OnErrorAcquireResult == extract_acquire(like_bracket(b_variant), b_acquire)
\* the Result use returned, when it returned
OnErrorUseResult == extract_acquire(like_bracket(b_variant), b_use.val)
OnErrorUseFailed == b_use.kind = "return" /\ OnErrorUseResult.tag = "Error"

\* C16: bracket_on_error invokes release exactly once, on the acquired
\* resource, when acquire succeeded and use returned Error, and never when
\* use returned Ok or acquire failed; whenever use returned, its Result is
\* what the caller gets (for bracket_on_error_w with the acquire log and the
\* use log combined), whether release returned or raised.
C16_ReleaseOnlyOnError ==
    /\ Cardinality(EventsOf("release")) <= 1
    /\ \A i \in EventsOf("release") :
        /\ OnErrorAcquireResult.tag = "Ok"
        /\ OnErrorUseFailed
        /\ b_events[i][2] = OnErrorAcquireResult.val
    /\ (b_acquire # NoRaw /\ OnErrorAcquireResult.tag = "Error") =>
            /\ EventsOf("use") = {} /\ EventsOf("release") = {}
            /\ b_pc = "done"
    /\ (b_pc = "done" /\ b_use.kind = "return") =>
            /\ Cardinality(EventsOf("release")) = (IF OnErrorUseResult.tag = "Error" THEN 1 ELSE 0)
            /\ b_result.kind = "return"
            /\ extract_acquire(like_bracket(b_variant), b_result.val) = OnErrorUseResult
            /\ b_variant = "bracket_on_error" => b_result.val = b_use.val
            /\ b_variant = "bracket_on_error_w" =>
                    b_result.val.log = b_acquire.log \o b_use.val.log

\* use returned Error, release ran once and raised, the Error came back
C16_Witness ==
    /\ b_pc = "done"
    /\ OnErrorUseFailed
    /\ b_release = "raise"
    /\ Cardinality(EventsOf("release")) = 1
    /\ b_result = Return(on_error_return(b_variant, b_acquire, b_use.val))

(***************************************************************************)
(* Claims about retry (checked under SpecRetry)                            *)
(***************************************************************************)
\* the executions sugar s has started
Executed(s) == 1..r_calls[s]
AllFailed(s) == \A k \in Executed(s) : r_tape[k].tag = "Error"
\* every error the effect produced for s is one the policy retries
AllRetryable(s) ==
    ~r_policy.retry_on.given
        \/ \A k \in Executed(s) :
              r_tape[k].tag = "Error" => r_tape[k].val \in r_policy.retry_on.accepts

\* C3: with no retry_on predicate, retry of an effect that fails on every
\* execution executes it exactly policy.times times (never more while running,
\* never fewer when it returns) and returns the Error of the last execution.
C3_AlwaysFailsRunsExactlyN ==
    \A s \in RetrySugars :
        (~r_policy.retry_on.given /\ AllFailed(s)) =>
            /\ r_calls[s] <= r_policy.times
            /\ r_pc[s] = "done" =>
                /\ r_calls[s] = r_policy.times
                /\ r_result[s] = retry_raw(s, r_policy.times)

\* three failing executions, the last with another error than the first
C3_Witness ==
    /\ r_pc["retry"] = "done"
    /\ ~r_policy.retry_on.given
    /\ r_policy.times = 3
    /\ AllFailed("retry")
    /\ r_calls["retry"] = 3
    /\ r_tape[1] = Error("e1")
    /\ r_tape[3] = Error("e2")
    /\ r_result["retry"] = Error("e2")

\* retry_on rejects the error of the first execution
FirstErrorRejected ==
    /\ Len(r_tape) >= 1
    /\ r_tape[1].tag = "Error"
    /\ r_policy.retry_on.given
    /\ r_tape[1].val \notin r_policy.retry_on.accepts

\* C4: if retry_on is false for the error of the first attempt, the effect is
\* executed exactly once, that first failure is returned, and retry never
\* sleeps, whatever policy.times and the backoff are.
C4_EarlyStopOnFirstError ==
    \A s \in RetrySugars :
        (FirstErrorRejected /\ r_calls[s] >= 1) =>
            /\ r_calls[s] = 1
            /\ r_sleeps[s] = 0
            /\ r_pc[s] \in {"await", "done"}
            /\ r_pc[s] = "done" => r_result[s] = retry_raw(s, 1)

\* times = 3 and a positive delay, and still one execution
C4_Witness ==
    /\ FirstErrorRejected
    /\ r_policy.times = 3
    /\ _delay_seconds(r_policy, 0, r_tape[1].val) > 0
    /\ r_pc["retry"] = "done"
    /\ r_calls["retry"] = 1
    /\ r_result["retry"] = r_tape[1]

\* the number of failures before the first success among the executions of s
\* (all of them when none succeeded)
RECURSIVE LeadingFailures(_, _)
LeadingFailures(s, k) ==
    IF k > r_calls[s] THEN 0
    ELSE IF r_tape[k].tag = "Ok" THEN 0
    ELSE 1 + LeadingFailures(s, k + 1)

\* C5: with every error retryable, an effect that fails k times and then
\* succeeds is executed k+1 times and Ok is returned when times > k, and is
\* executed times times and the last of these failures is returned when
\* times <= k; nothing is executed after the first Ok.
C5_FailsKThenSucceeds ==
    \A s \in RetrySugars :
        LET k == LeadingFailures(s, 1) IN
        AllRetryable(s) =>
            /\ r_calls[s] <= k + 1
            /\ r_calls[s] <= r_policy.times
            /\ r_pc[s] = "done" =>
                IF r_policy.times > k
                THEN /\ r_calls[s] = k + 1
                     /\ retry_extract(s, r_result[s]).tag = "Ok"
                     /\ r_result[s] = retry_raw(s, k + 1)
                ELSE /\ r_calls[s] = r_policy.times
                     /\ r_result[s] = retry_raw(s, r_policy.times)
                     /\ retry_extract(s, r_result[s]).tag = "Error"

\* two failures, then the third execution succeeds
C5_Witness ==
    /\ r_pc["retry"] = "done"
    /\ r_policy.times = 3
    /\ r_calls["retry"] = 3
    /\ LeadingFailures("retry", 1) = 2
    /\ r_result["retry"].tag = "Ok"

\* C6: retry_w performs as many executions as retry does on the same
\* outcomes without their logs; its result is the WriterResult of its last
\* execution: the Result is the one retry returns and the log is the log of
\* that execution alone.
C6_RetryWriterMatchesRetry ==
    (r_pc["retry"] = "done" /\ r_pc["retry_w"] = "done") =>
        /\ r_calls["retry_w"] = r_calls["retry"]
        /\ r_result["retry_w"].result = r_result["retry"]
        /\ r_result["retry_w"].log = AttemptLog(r_calls["retry_w"])

\* both ran three executions; the logs of the first two are gone
C6_Witness ==
    /\ r_pc["retry"] = "done"
    /\ r_pc["retry_w"] = "done"
    /\ r_calls["retry_w"] = 3
    /\ r_result["retry_w"].log = <<3>>

(***************************************************************************)
(* Claims about timeout (checked under SpecTimeout)                        *)
(***************************************************************************)
\* the raw the inner effect hands to wait_for when it returns
InnerRaw ==
    IF t_sugar = "timeout" THEN t_outcome.val ELSE WriterResult(t_outcome.val, t_log)
\* the failure of an expired deadline: TimeoutError(seconds), empty log
TimeoutFailure ==
    IF t_sugar = "timeout"
    THEN Error(TimeoutError(t_seconds))
    ELSE WriterResult(Error(TimeoutError(t_seconds)), <<>>)

\* C7: for an inner effect that ends with an Outcome, timeout has exactly two
\* results.  If the effect completed before the deadline fired, its own raw
\* (Outcome, and log for timeout_writer) is returned unchanged; if the
\* deadline fired first, Error(TimeoutError(seconds)) is returned, with an
\* empty log whatever the effect had logged.
C7_TimeoutTwoResults ==
    (t_pc = "done" /\ t_outcome.kind = "return") =>
        /\ t_expired <=> t_inner # "finished"
        /\ ~t_expired => t_result = Return(InnerRaw)
        /\ t_expired => t_result = Return(TimeoutFailure)

\* timeout_writer expired after the inner effect had written a log entry
C7_Witness ==
    /\ t_pc = "done"
    /\ t_sugar = "timeout_writer"
    /\ t_outcome.kind = "return"
    /\ t_expired
    /\ t_log # <<>>
    /\ t_result = Return(TimeoutFailure)

\* C8: when the deadline fires the inner effect is cancelled: from then on it
\* performs no side effect, and when timeout has returned the TimeoutError
\* failure the inner coroutine has ended cancelled, so the side effect behind
\* its pending suspension never happens.
C8_ExpiryCancelsInner ==
    /\ [][t_expired => (t_effects' = t_effects /\ t_log' = t_log)]_vars
    /\ []((t_pc = "done" /\ t_expired) =>
            (t_inner = "cancelled" /\ (t_plan # <<>> => t_effects < Len(t_plan))))

\* expired between two suspensions: one side effect done, one never performed
C8_Witness ==
    /\ t_pc = "done"
    /\ t_expired
    /\ t_effects = 1
    /\ Len(t_plan) = 2
    /\ t_inner = "cancelled"

(***************************************************************************)
(* Claims about race and race_ok (checked under SpecRace)                  *)
(***************************************************************************)
\* C9: race returns the raw of the branch that completed first, and when it
\* returns every other branch is done or has been cancelled; no losing
\* branch completes after race has returned.
C9_RaceReturnsFirstCompleted ==
    (~IsRaceOk /\ rc_pc = "done") =>
        /\ rc_result = rc_raw[rc_order[1]]
        /\ \A i \in Branches : rc_task[i] \in {"done", "cancelling", "cancelled"}
        /\ rc_late = {}

\* the positions in completion order of the branches that produced Ok
OkPositions ==
    {k \in 1..Len(rc_order) : race_extract(rc_sugar, rc_raw[rc_order[k]]).tag = "Ok"}
\* those of them that completed before run() returned
OkPositionsBeforeReturn == {k \in OkPositions : rc_order[k] \notin rc_late}
FirstOf(S) == CHOOSE k \in S : \A j \in S : k <= j

\* C10: with every branch ending in an Outcome, race_ok returns Ok exactly
\* when a branch that completed before the return produced Ok, and then the
\* first Ok in completion order; when all branches failed it returns the
\* first-completed failure under 'first' and the last-completed failure
\* under 'last'.
C10_RaceOkResult ==
    (IsRaceOk /\ rc_pc = "done") =>
        /\ race_extract(rc_sugar, rc_result).tag = "Ok" <=> OkPositionsBeforeReturn # {}
        /\ OkPositions # {} => rc_result = rc_raw[rc_order[FirstOf(OkPositions)]]
        /\ OkPositions = {} =>
            /\ Len(rc_order) = rc_n
            /\ rc_policy.error_strategy = "first" => rc_result = rc_raw[rc_order[1]]
            /\ rc_policy.error_strategy = "last" => rc_result = rc_raw[rc_order[rc_n]]

\* three failures under 'last'; the last to complete is the first passed in
C10_Witness ==
    /\ IsRaceOk
    /\ rc_pc = "done"
    /\ rc_n = 3
    /\ rc_policy.error_strategy = "last"
    /\ OkPositions = {}
    /\ rc_order[3] = 1
    /\ race_extract(rc_sugar, rc_result) = Error(1)

\* the branch that completed first produced Ok
FastSucceeded ==
    /\ rc_order # <<>>
    /\ race_extract(rc_sugar, rc_raw[rc_order[1]]).tag = "Ok"
\* race_ok with cancel_pending has returned the Ok of the first-completed branch
FastWon == IsRaceOk /\ rc_policy.cancel_pending /\ rc_pc = "done" /\ FastSucceeded

\* C11 as stated: with cancel_pending, race_ok of two succeeding branches
\* returns the result of the branch that completes first, and the side-effect
\* counter of the other branch is never incremented, in any interleaving.
C11_SlowNeverIncrements ==
    (IsRaceOk /\ rc_policy.cancel_pending /\ rc_n = 2 /\ FastSucceeded) =>
        /\ \A i \in Branches \ {rc_order[1]} : rc_counter[i] = 0
        /\ rc_pc = "done" => rc_result = rc_raw[rc_order[1]]

\* C11 (amended): with cancel_pending, when the first-completed branch
\* produced Ok, race_ok returns that branch's raw; every branch that has not
\* completed by the time run() takes that result is cancelled, and from the
\* return on no side-effect counter is incremented and no branch completes.
C11_PendingBranchCancelled ==
    /\ [][FastWon => rc_counter' = rc_counter]_vars
    /\ [](FastWon =>
            /\ rc_result = rc_raw[rc_order[1]]
            /\ \A i \in Branches : rc_task[i] \in {"done", "cancelling", "cancelled"}
            /\ \A i \in Branches : rc_task[i] # "done" => rc_counter[i] = 0
            /\ rc_late = {})

\* the second effect won; the first was cancelled with its counter untouched
C11_Witness ==
    /\ FastWon
    /\ rc_n = 2
    /\ rc_order = <<2>>
    /\ rc_task[1] = "cancelled"
    /\ rc_counter[1] = 0
    /\ race_extract(rc_sugar, rc_result) = Ok(2)

(***************************************************************************)
(* Claims about rate_limit (checked under SpecRateLimit)                   *)
(***************************************************************************)
Created == {w \in Wrappers : rl_wrapper[w] = "created"}
\* the capacity of the bucket of wrapper w, in parts
Capacity(w) == rl_bucket[w].burst * PartsPerToken

\* C12: in every reachable state of a token bucket, with callers interleaving
\* in acquire(), 0 <= tokens <= burst; last_refill never decreases; a step in
\* which acquire() is granted takes exactly one whole token from an amount
\* between the previous tokens and burst, and any other step never lowers
\* tokens.
C12_BucketInvariants ==
    /\ [](\A w \in Created : 0 <= rl_bucket[w].tokens /\ rl_bucket[w].tokens <= Capacity(w))
    /\ [][\A w \in Created :
            /\ rl_bucket'[w].last_refill >= rl_bucket[w].last_refill
            /\ IF rl_granted'[w] # rl_granted[w]
               THEN /\ rl_granted'[w] = rl_granted[w] + 1
                    /\ rl_bucket'[w].tokens + PartsPerToken >= rl_bucket[w].tokens
                    /\ rl_bucket'[w].tokens + PartsPerToken >= PartsPerToken
                    /\ rl_bucket'[w].tokens + PartsPerToken <= Capacity(w)
               ELSE rl_bucket'[w].tokens >= rl_bucket[w].tokens]_vars

\* two callers in run() of the same wrapper: one granted, the other asleep in
\* acquire() on a bucket holding half a token, refilled after its creation
C12_Witness ==
    /\ "w1" \in Created
    /\ rl_on["c1"] = "w1" /\ rl_pc["c1"] = "inner"
    /\ rl_on["c2"] = "w1" /\ rl_pc["c2"] = "sleep"
    /\ rl_bucket["w1"].tokens = 1
    /\ rl_bucket["w1"].last_refill > rl_created_at["w1"]

\* C13: the M-th inner invocation of a rate-limited effect with
\* max_per_second = R and burst = B never starts earlier than (M - B) / R
\* after the wrapper was created, whether the calls are issued one after the
\* other or concurrently.
C13_RateLimiterBound ==
    \A w \in Created :
        rl_granted[w] >= 1 =>
            (rl_last_start[w] - rl_created_at[w]) * rl_bucket[w].max_per_second
                >= (rl_granted[w] - rl_bucket[w].burst) * PartsPerToken

\* R = 1, B = 1: the third invocation starts exactly 2 seconds after creation
C13_Witness ==
    /\ "w1" \in Created
    /\ rl_bucket["w1"].max_per_second = PartsPerToken
    /\ rl_bucket["w1"].burst = 1
    /\ rl_granted["w1"] = 3
    /\ rl_last_start["w1"] - rl_created_at["w1"] = 2

\* C14: for every policy RateLimitPolicy accepts (max_per_second > 0, burst
\* >= 1 or unspecified) the bucket rate_limit builds has capacity burst >= 1,
\* an unspecified burst being floor(max_per_second).
C14_CapacityAtLeastOne ==
    \A w \in Created :
        /\ RateLimitPolicy_post_init(rl_args)
        /\ rl_bucket[w].burst >= 1
        /\ ~rl_args.burst.given => rl_bucket[w].burst = int(rl_args.max_per_second)

\* C15: the bucket of a wrapper is shared by all its invocations and by
\* nothing else.  The tokens it holds never exceed its capacity plus what
\* was refilled since its creation minus one token per invocation started,
\* so what one invocation consumed is not there for the next; a step changes
\* the bucket of a wrapper only for a caller inside run() of that wrapper, and
\* leaves the bucket and the count of the other wrapper alone.
C15_OneBucketPerWrapper ==
    /\ [](\A w \in Created :
            rl_bucket[w].tokens + rl_granted[w] * PartsPerToken
                <= Capacity(w)
                   + (rl_bucket[w].last_refill - rl_created_at[w]) * rl_bucket[w].max_per_second)
    /\ [][\A w \in Created :
            rl_bucket'[w] # rl_bucket[w] =>
                /\ \E c \in Callers : rl_on'[c] = w /\ rl_pc'[c] # "idle"
                /\ \A v \in Wrappers \ {w} :
                      rl_bucket'[v] = rl_bucket[v] /\ rl_granted'[v] = rl_granted[v]]_vars

\* both wrappers built from the same policy; w1 is drained by two invocations
\* and keeps a caller waiting while the bucket of w2 is still full
C15_Witness ==
    /\ Created = Wrappers
    /\ rl_granted["w1"] = 2
    /\ rl_granted["w2"] = 0
    /\ rl_bucket["w1"].tokens = 0
    /\ rl_bucket["w2"].tokens = Capacity("w2")
    /\ Capacity("w2") = 2 * PartsPerToken
    /\ \E c \in Callers : rl_on[c] = "w1" /\ rl_pc[c] = "sleep"

(***************************************************************************)
(* Claims about fallback_chain (checked under SpecFallback)                *)
(***************************************************************************)
\* the invocations that produced Ok
FallbackOks == {k \in 1..Len(f_raws) : fallback_extract(f_sugar, f_raws[k]).tag = "Ok"}

\* C17: fallback_chain(e1..en) invokes the effects strictly left to right,
\* each at most once, and none after the first that yields Ok; it returns the
\* raw of that effect, and when all n effects fail it returns the failure of
\* the last effect en.
C17_FallbackChain ==
    /\ \A k \in 1..Len(f_invoked) : f_invoked[k] = k
    /\ Len(f_invoked) <= f_n
    /\ \A k \in FallbackOks : k = Len(f_invoked)
    /\ (f_pc = "done" /\ f_n >= 1) =>
            IF FallbackOks # {}
            THEN f_result = Return(f_raws[Len(f_invoked)])
            ELSE /\ Len(f_invoked) = f_n
                 /\ Len(f_raws) = f_n
                 /\ f_result = Return(f_raws[f_n])

\* three effects fail; the failure returned is the third one's, not the first
C17_Witness ==
    /\ f_sugar = "fallback_chain"
    /\ f_pc = "done"
    /\ f_n = 3
    /\ f_invoked = <<1, 2, 3>>
    /\ f_raws[1] = Error("e1")
    /\ f_raws[3] = Error("e2")
    /\ f_result = Return(Error("e2"))

(***************************************************************************)
(* Claims about repeat_until (checked under SpecRepeat)                    *)
(***************************************************************************)
\* the rounds that decide: the effect failed, or its Ok value satisfies
\* condition
RepeatDeciding ==
    {k \in 1..Len(ru_raws) :
        LET result == repeat_extract(ru_sugar, ru_raws[k])
        IN result.tag = "Error" \/ result.val \in ru_condition}

\* C18: repeat_until executes the effect at most max_rounds times and never
\* again after a deciding round; it returns the raw of the first round that
\* failed or whose Ok value satisfies condition, and returns
\* Error(ConditionNotMetError(max_rounds)) after exactly max_rounds
\* executions when no round decided; it always returns, never raises.
C18_RepeatUntil ==
    /\ ru_calls <= ru_policy.max_rounds
    /\ \A k \in RepeatDeciding : k = ru_calls
    /\ ru_pc = "done" =>
        /\ ru_result.kind = "return"
        /\ IF RepeatDeciding # {}
           THEN ru_result.val = ru_raws[ru_calls]
           ELSE /\ ru_calls = ru_policy.max_rounds
                /\ ru_result.val = repeat_exhausted(ru_sugar, ru_policy)

\* three rounds of Ok values that fail the condition, two sleeps in between
C18_Witness ==
    /\ ru_sugar = "repeat_until"
    /\ ru_pc = "done"
    /\ ru_policy = RepeatPolicy(3, 1)
    /\ ru_calls = 3
    /\ ru_sleeps = 2
    /\ RepeatDeciding = {}
    /\ ru_result = Return(Error(ConditionNotMetError(3)))

(***************************************************************************)
(* Claims about ensure and reject (checked under SpecGuard)                *)
(***************************************************************************)
\* what a guard that turns Ok(v) into Error(err(v)) exactly when `fails`
\* makes of the inner Result
GuardExpected(fails) ==
    IF g_inner.tag = "Ok" /\ fails THEN Error(g_error[g_inner.val]) ELSE g_inner

\* C19: ensure and reject are duals.  On the same inner outcome, ensure with
\* p and reject with not p return the same result (ensure_w and reject_w
\* too, with the log of the inner effect kept).  Ok(v) becomes
\* Error(err(v)) exactly when the predicate given to ensure is false for v /
\* the predicate given to reject is true for v, and is kept otherwise.  An
\* Error passes through unchanged, and neither the predicate nor the error
\* factory is evaluated for it.
C19_EnsureRejectDual ==
    /\ (g_pc["ensure"] = "done" /\ g_pc["reject"] = "done") =>
            g_result["ensure"] = g_result["reject"]
    /\ (g_pc["ensure_w"] = "done" /\ g_pc["reject_w"] = "done") =>
            g_result["ensure_w"] = g_result["reject_w"]
    /\ \A s \in GuardSugars :
        LET predicate == guard_predicate(s, g_p)
            fails == IF s \in {"ensure", "ensure_w"}
                     THEN g_inner.val \notin predicate
                     ELSE g_inner.val \in predicate
        IN g_pc[s] = "done" =>
            /\ guard_extract(s, g_result[s]) = GuardExpected(fails)
            /\ s \in {"ensure_w", "reject_w"} => g_result[s].log = g_log
            /\ g_inner.tag = "Error" =>
                    g_predicate_calls[s] = 0 /\ g_error_calls[s] = 0
            /\ g_inner.tag = "Ok" =>
                    /\ g_predicate_calls[s] = 1
                    /\ g_error_calls[s] = (IF fails THEN 1 ELSE 0)

\* p is false for the value: all four turned Ok("v1") into the same Error,
\* the writer sugars with the log kept
C19_Witness ==
    /\ \A s \in GuardSugars : g_pc[s] = "done"
    /\ g_inner = Ok("v1")
    /\ g_p = {"v2"}
    /\ g_log = <<"w">>
    /\ g_result["reject"] = Error(g_error["v1"])
    /\ g_result["ensure"] = g_result["reject"]
    /\ g_result["reject_w"] = WriterResult(Error(g_error["v1"]), <<"w">>)

(***************************************************************************)
(* Claims about validate (checked under SpecValidate)                      *)
(***************************************************************************)
ValidateResultOf(i) == validate_extract(v_sugar, v_raw[i])
ValidateFailing == {i \in ValidateItems : ValidateResultOf(i).tag = "Error"}
\* the k-th failing effect in input order
KthFailing(k) ==
    CHOOSE i \in ValidateFailing : Cardinality({j \in ValidateFailing : j < i}) = k - 1

\* C20: validate returns only when every effect has run to completion.  If
\* some effect failed it returns Error(list) whose entries are exactly the
\* errors of the failing effects in input order, whatever the order of
\* completion; it returns Ok(list of all values in input order) if and only
\* if no effect failed.
C20_ValidateCollectsAll ==
    v_pc = "done" =>
        LET result == validate_extract(v_sugar, v_result)
        IN /\ \A i \in ValidateItems : v_task[i] = "done"
           /\ result.tag = "Ok" <=> ValidateFailing = {}
           /\ result.tag = "Error" =>
                /\ Len(result.val) = Cardinality(ValidateFailing)
                /\ \A k \in 1..Len(result.val) :
                      result.val[k] = ValidateResultOf(KthFailing(k)).val
           /\ result.tag = "Ok" =>
                /\ Len(result.val) = v_n
                /\ \A i \in ValidateItems : result.val[i] = ValidateResultOf(i).val

\* three effects completing in reverse order; the first fails with e1 and
\* the third with e2
C20_Witness ==
    /\ v_sugar = "validate"
    /\ v_pc = "done"
    /\ v_n = 3
    /\ v_order = <<3, 2, 1>>
    /\ v_raw[1] = Error("e1")
    /\ v_raw[2].tag = "Ok"
    /\ v_raw[3] = Error("e2")
    /\ v_result = Error(<<"e1", "e2">>)

(***************************************************************************)
(* Claims about batch (checked under SpecBatch)                            *)
(***************************************************************************)
\* the handler effects started and not yet finished
BatchInFlight == {i \in BatchItems : ba_task[i] = "running"}
BatchFailing == {i \in BatchItems : ba_returned[i].tag = "Error"}
BatchAllReturned == \A i \in BatchItems : ba_returned[i] # NoRaw
\* the Result in what run() returned
BatchResult == batch_extract(ba_sugar, ba_result.val)

\* C21: at every moment of an execution of batch / traverse_par with
\* concurrency = N, at most N handler effects are in flight (started and not
\* yet finished), for any number of items.
C21_InFlightAtMostConcurrency ==
    Cardinality(BatchInFlight) <= ba_concurrency

\* three items with concurrency 2: two handler effects in flight while the
\* third task waits for a slot
C21_Witness ==
    /\ ba_sugar = "traverse_par"
    /\ ba_n = 3
    /\ ba_concurrency = 2
    /\ Cardinality(BatchInFlight) = 2
    /\ ba_task[3] = "waiting"

\* C22: when every handler succeeds, batch returns Ok(list) whose i-th
\* element is the value produced for the i-th item, for every completion
\* order and every concurrency >= 1.
C22_OkInInputOrder ==
    (/\ ba_pc = "done"
     /\ ba_concurrency >= 1
     /\ \A i \in BatchItems : ba_returned[i].tag = "Ok") =>
        /\ ba_result.kind = "return"
        /\ BatchResult.tag = "Ok"
        /\ Len(BatchResult.val) = ba_n
        /\ \A i \in BatchItems : BatchResult.val[i] = ba_returned[i].val

\* three items whose handlers finish in the order 2, 3, 1 with different
\* values
C22_Witness ==
    /\ ba_sugar = "batch"
    /\ ba_pc = "done"
    /\ ba_n = 3
    /\ ba_concurrency = 2
    /\ ba_order = <<2, 3, 1>>
    /\ ba_result = Return(Ok(<<"v1", "v2", "v2">>))

\* C23: when some handler returns Error (and none raises), batch returns
\* only after the handler of every item has run to completion, and the
\* Error it returns is that of the failing item with the lowest input
\* index, whichever failure completed first.
C23_AllRunLowestIndexError ==
    (/\ ba_pc = "done"
     /\ ba_result.kind = "return"
     /\ BatchFailing # {}) =>
        /\ \A i \in BatchItems : ba_task[i] = "done"
        /\ BatchAllReturned
        /\ BatchResult.tag = "Error"
        /\ \E i \in BatchFailing :
              /\ \A j \in BatchFailing : i <= j
              /\ BatchResult.val = ba_returned[i].val

\* items 1 and 3 fail; item 2 succeeds first, then item 3 fails, and item 1
\* fails last; the Error returned is item 1's
C23_Witness ==
    /\ ba_sugar = "batch"
    /\ ba_pc = "done"
    /\ ba_n = 3
    /\ ba_order = <<2, 3, 1>>
    /\ ba_returned[1] = Error("e1")
    /\ ba_returned[2].tag = "Ok"
    /\ ba_returned[3] = Error("e2")
    /\ ba_result = Return(Error("e1"))

(***************************************************************************)
(* Claims about merged logs (checked under SpecGathered and SpecPar)       *)
(***************************************************************************)
\* the logs of effects 1..n, each <<i>>, concatenated in input order
LogsInInputOrder(n) == [i \in 1..n |-> i]

\* C24: for parallel_w, zip_par_w and batch_w the result log is the
\* concatenation, in input order, of the logs of all branches, when every
\* branch succeeds and when some branch fails, whatever the order in which
\* the branches complete.
C24_LogsMergedInInputOrder ==
    /\ (/\ pa_pc = "done"
        /\ pa_sugar \in {"parallel_w", "zip_par_w"}
        /\ pa_result.kind = "return") =>
            pa_result.val.log = LogsInInputOrder(pa_n)
    /\ (/\ ba_pc = "done"
        /\ ba_sugar = "batch_w"
        /\ ba_result.kind = "return") =>
            ba_result.val.log = LogsInInputOrder(ba_n)

\* zip_par_w of three effects that complete in reverse order, the second
\* failing: the Error comes with the logs of all three
C24_Witness ==
    /\ pa_sugar = "zip_par_w"
    /\ pa_pc = "done"
    /\ pa_n = 3
    /\ pa_order = <<3, 2, 1>>
    /\ pa_result = Return(WriterResult(Error("e1"), <<1, 2, 3>>))

\* C25: gather2_w and gather3_w merge the logs of all their branches, in
\* argument order, into the result log, when every branch succeeds and
\* when a branch fails.
C25_GatherMergesLogs ==
    (/\ pa_pc = "done"
     /\ pa_sugar \in {"gather2_w", "gather3_w"}
     /\ pa_result.kind = "return") =>
        pa_result.val.log = LogsInInputOrder(pa_n)

(***************************************************************************)
(* Claims about the sequential combinators (checked under SpecSequential)  *)
(***************************************************************************)
\* inner effect executions started and not finished, per combinator
SeqInFlight == Len(sq_invoked) - Len(sq_raws)
RepeatInFlight == ru_calls - Len(ru_raws)
FallbackInFlight == Len(f_invoked) - Len(f_raws)

AtMostOneInFlight ==
    /\ SeqInFlight \in {0, 1}
    /\ \A s \in RetrySugars : r_inflight[s] \in {0, 1}
    /\ RepeatInFlight \in {0, 1}
    /\ FallbackInFlight \in {0, 1}

\* a step that starts finds every earlier step finished and no sleep pending
StepStartsAfterPrevious ==
    /\ Len(sq_invoked') > Len(sq_invoked) => SeqInFlight = 0
    /\ \A s \in RetrySugars :
          r_calls'[s] > r_calls[s] => r_inflight[s] = 0 /\ r_pc[s] # "sleep"
    /\ ru_calls' > ru_calls => RepeatInFlight = 0 /\ ru_pc # "sleep"
    /\ Len(f_invoked') > Len(f_invoked) => FallbackInFlight = 0

\* C26: traverse, fold, retry, repeat_until and fallback_chain are strictly
\* sequential: at every moment at most one inner effect execution is in
\* flight, and step i+1 never starts before step i, its suspensions and any
\* backoff sleep included, has fully completed.
C26_StrictlySequential ==
    /\ []AtMostOneInFlight
    /\ [][StepStartsAfterPrevious]_vars

\* fold awaiting the handler effect of its second item after the first one
\* has returned
C26_Witness ==
    /\ sq_sugar = "fold"
    /\ sq_pc = "await"
    /\ Len(sq_invoked) = 2
    /\ Len(sq_raws) = 1

(***************************************************************************)
(* Claims about Log (checked under SpecLog)                                *)
(***************************************************************************)
\* x.combine(y) for two Logs given by their contents: the content of the result
CombineOf(x, y) ==
    LET c == Log_combine(<<x, y>>, 1, 2) IN c.heap[c.result]

MonoidLaws ==
    \A i, j, k \in DOMAIN lg_heap :
        LET x == lg_heap[i]
            y == lg_heap[j]
            z == lg_heap[k]
        IN /\ CombineOf(<<>>, x) = x
           /\ CombineOf(x, <<>>) = x
           /\ CombineOf(CombineOf(x, y), z) = CombineOf(x, CombineOf(y, z))

\* a call leaves every existing object as it was, and combine and tell
\* return an object that did not exist before
OperandsUnchanged ==
    /\ Len(lg_heap') >= Len(lg_heap)
    /\ \A i \in DOMAIN lg_heap : lg_heap'[i] = lg_heap[i]
    /\ lg_last'.op \in {"combine", "tell"} => lg_last'.result \notin DOMAIN lg_heap

\* C27: Log is a monoid under combine: for all logs x, y, z,
\* Log().combine(x) == x, x.combine(Log()) == x and
\* (x.combine(y)).combine(z) == x.combine(y.combine(z)); combine and tell
\* return a new Log and leave both operands unchanged.
C27_LogMonoid ==
    /\ []MonoidLaws
    /\ [][OperandsUnchanged]_vars

\* Log.of("a").combine(Log.of("b")) gave a third object ["a", "b"] and the
\* operands are still ["a"] and ["b"]
C27_Witness ==
    /\ lg_last.op = "combine"
    /\ lg_last.self = 1
    /\ lg_last.other = 2
    /\ lg_last.result = 3
    /\ lg_heap[1] = <<"a">>
    /\ lg_heap[2] = <<"b">>
    /\ lg_heap[3] = <<"a", "b">>

(***************************************************************************)
(* Claims about LazyCoroResultWriter (checked under SpecWriter)            *)
(***************************************************************************)
\* C28: LoggingEffect.then: when the first computation yields Ok(v) the
\* continuation is invoked exactly once, with v, and the result is the
\* continuation's Outcome with the first log followed by the continuation's
\* log; when it yields Error the continuation is never invoked and the
\* result is that Error with the first computation's log unchanged.
C28_ThenBind ==
    /\ Len(wm_f_calls) <= 1
    /\ (wm_op = "then" /\ wm_pc = "done") =>
          IF wm_self.result.tag = "Ok"
          THEN /\ wm_f_calls = <<wm_self.result.val>>
               /\ wm_result.result = wm_next.result
               /\ wm_result.log = wm_self.log \o wm_next.log
          ELSE /\ wm_f_calls = <<>>
               /\ wm_result.result = wm_self.result
               /\ wm_result.log = wm_self.log

\* Ok with the log ["a"], then a continuation failing with the log ["b"]
C28_Witness ==
    /\ wm_op = "then"
    /\ wm_pc = "done"
    /\ wm_self = WriterResult(Ok(<<"v1">>), <<"a">>)
    /\ wm_f_calls = <<<<"v1">>>>
    /\ wm_next = WriterResult(Error("e1"), <<"b">>)
    /\ wm_result = WriterResult(Error("e1"), <<"a", "b">>)

WriterMethodDone(op) == wm_op = op /\ wm_pc = "done"

\* what the three methods do to the log
WriterLogEffect ==
    /\ WriterMethodDone("with_log") => wm_result.log = wm_self.log \o wm_entries
    /\ WriterMethodDone("censor") => wm_result.log = apply_log_function(wm_f, wm_self.log)
    /\ WriterMethodDone("listen") => wm_result.log = wm_self.log

\* C29 as stated: with_log, listen and censor do not alter the computed
\* value: the Outcome of the wrapped effect equals the inner Outcome (same
\* variant, same value or error); with_log appends its entries after the
\* existing ones, censor replaces the log by f(log), listen leaves it.
C29_OutcomeUnaltered ==
    /\ \A op \in {"with_log", "listen", "censor"} :
          WriterMethodDone(op) => wm_result.result = wm_self.result
    /\ WriterLogEffect

\* C29: with_log and censor return the inner Outcome as it is; listen keeps
\* the variant, returns an Error as it is and turns Ok(value) into
\* Ok((value, log)) with the inner value and the inner log; the log is
\* extended by with_log's entries, replaced by f(log) in censor, and left
\* unchanged by listen.
C29_OutcomeKeptListenPairs ==
    /\ \A op \in {"with_log", "censor"} :
          WriterMethodDone(op) => wm_result.result = wm_self.result
    /\ WriterMethodDone("listen") =>
          /\ wm_result.result.tag = wm_self.result.tag
          /\ wm_self.result.tag = "Error" => wm_result.result = wm_self.result
          /\ wm_self.result.tag = "Ok" =>
                wm_result.result.val = <<wm_self.result.val[1], wm_self.log>>
    /\ WriterLogEffect

\* listen on Ok("v1") with the log ["a", "b"]
C29_Witness ==
    /\ wm_op = "listen"
    /\ wm_pc = "done"
    /\ wm_self = WriterResult(Ok(<<"v1">>), <<"a", "b">>)
    /\ wm_result = WriterResult(Ok(<<"v1", <<"a", "b">>>>), <<"a", "b">>)

(***************************************************************************)
(* Claims about Flow.compile (checked under SpecFlow)                       *)
(***************************************************************************)
\* where one execution of the compiled effect c stands
FlowPosition(c) == <<fl_pc[c], fl_at[c], fl_wake[c], fl_runs[c]>>

\* everything the behaviour of the compiled effect c depends on besides the
\* clock: whether it exists, its execution, and the token buckets of its wrappers
FlowEffect(c) ==
    <<fl_compiled[c], FlowPosition(c),
      [k \in 1..Len(fl_buckets[c]) |-> fl_heap[fl_buckets[c][k]]]>>

FlowBucketsOf(c) == {fl_buckets[c][k] : k \in 1..Len(fl_buckets[c])}

\* C30: two compile() calls on one unexecuted Flow give two effects that share
\* no state made by the combinators: every rate_limit wrapper of each has a
\* token bucket of its own, so a step of an execution of one effect changes
\* neither the buckets, nor the execution, nor the execution count of the
\* other; and the builder methods and compile() start no execution, neither
\* of a compiled effect nor of the Base effect.
C30_CompiledEffectsIndependent ==
    /\ [](\A c, d \in FlowCompiles :
            /\ Len(fl_buckets[c]) = (IF fl_compiled[c] THEN fl_nodes ELSE 0)
            /\ Cardinality(FlowBucketsOf(c)) = Len(fl_buckets[c])
            /\ c # d => FlowBucketsOf(c) \cap FlowBucketsOf(d) = {})
    /\ [][\A c, d \in FlowCompiles :
            (c # d /\ FlowPosition(d)' # FlowPosition(d))
                => FlowEffect(c)' = FlowEffect(c)]_vars
    /\ [][(fl_nodes' # fl_nodes \/ fl_compiled' # fl_compiled)
            => /\ fl_base_runs' = fl_base_runs
               /\ fl_runs' = fl_runs
               /\ fl_pc' = fl_pc]_vars

\* a Flow with one rate_limit node of burst 2 was compiled twice; the first
\* effect has run twice and used up its bucket, and the second, executed in
\* the same second, went straight to the Base effect on its own full bucket
C30_Witness ==
    /\ fl_nodes = 1
    /\ fl_now = 0
    /\ fl_compiled["first"] /\ fl_compiled["second"]
    /\ rate_limit_burst(fl_policy) = 2
    /\ fl_runs["first"] = 2 /\ fl_pc["first"] = "idle"
    /\ fl_runs["second"] = 1 /\ fl_pc["second"] = "base"
    /\ fl_base_runs = 3
    /\ fl_heap[fl_buckets["first"][1]].tokens = 0
    /\ fl_heap[fl_buckets["second"][1]].tokens = PartsPerToken

(***************************************************************************)
(* Claims about construction (checked under SpecConstruct)                  *)
(***************************************************************************)
\* C31: race, race_ok and fallback_chain called with no effect at all are
\* rejected by the call itself: the call returns no effect, and so no
\* execution is what raises the error.
C31_EmptyRejectedAtCall ==
    (cs_combinator \in VariadicCombinators /\ cs_n = 0)
        => /\ cs_effect # "returned"
           /\ cs_raised = "none"

\* the policy the claim calls invalid, by the claim's own conditions
InvalidPolicy(combinator, args) ==
    CASE combinator = "retry" -> args.times < 1
      [] combinator = "repeat_until" -> args.max_rounds < 1 \/ args.delay_seconds < 0
      [] combinator = "rate_limit" ->
            args.max_per_second <= 0 \/ (args.burst.given /\ args.burst.val < 1)
      [] combinator = "race_ok" -> args.error_strategy \notin {"first", "last"}

\* C32: a RetryPolicy with times < 1, a RepeatPolicy with max_rounds < 1 or
\* delay_seconds < 0, a RateLimitPolicy with max_per_second <= 0 or burst < 1
\* and a RaceOkPolicy with another error_strategy than 'first' / 'last' are
\* rejected by their constructor: no policy object comes to exist, no effect
\* is built with it and no run() ever starts with it.
C32_InvalidPolicyNeverRuns ==
    (cs_combinator \in PolicyCombinators /\ InvalidPolicy(cs_combinator, cs_args))
        => /\ cs_policy \in {"none", "rejected"}
           /\ cs_effect = "none"
           /\ cs_pc = "idle"
           /\ cs_started = 0

\* RepeatPolicy(max_rounds=2, delay_seconds=-1) was called and raised
C32_Witness ==
    /\ cs_combinator = "repeat_until"
    /\ cs_args.max_rounds = 2
    /\ cs_args.delay_seconds = -1
    /\ cs_policy = "rejected"
    /\ cs_effect = "none"

(***************************************************************************)
(* Claims about fold (checked under SpecSeq)                                *)
(***************************************************************************)
\* the accumulator after the first k items, all of which returned Ok
FoldAccAfter(k) == IF k = 0 THEN sq_initial ELSE sq_raws[k].val

FoldErrorAt == {k \in 1..Len(sq_raws) : sq_raws[k].tag = "Error"}

\* C33: fold calls the handler of item i with the accumulator that the Ok
\* result of item i-1 carried (initial for the first item).  It returns Ok of
\* the last accumulator when every step returned Ok, which is Ok(initial) with
\* no handler call for no items; at the first Error it returns that Error
\* and calls no handler of a later item.
C33_FoldLeftSequential ==
    sq_sugar = "fold" =>
        /\ Len(sq_invoked) <= sq_n
        /\ \A k \in 1..Len(sq_invoked) :
              /\ sq_invoked[k].item = k
              /\ sq_invoked[k].acc = FoldAccAfter(k - 1)
              /\ k > 1 => sq_raws[k - 1].tag = "Ok"
        /\ sq_pc = "done" =>
              IF FoldErrorAt = {}
              THEN /\ Len(sq_invoked) = sq_n
                   /\ Len(sq_raws) = sq_n
                   /\ sq_result = Ok(FoldAccAfter(sq_n))
              ELSE \E k \in FoldErrorAt :
                      /\ \A j \in FoldErrorAt : k <= j
                      /\ Len(sq_invoked) = k
                      /\ sq_result = Error(sq_raws[k].val)

\* fold over three items from "v1": item 1 gave Ok("v2"), the handler of
\* item 2 was called with "v2" and returned Error("e1"), which fold returned
\* without calling the handler of item 3
C33_Witness ==
    /\ sq_sugar = "fold"
    /\ sq_n = 3
    /\ sq_pc = "done"
    /\ sq_initial = "v1"
    /\ Len(sq_invoked) = 2
    /\ sq_invoked[2].acc = "v2"
    /\ sq_result = Error("e1")

(***************************************************************************)
(* Claims about parallel and zip_par (checked under SpecPar)                *)
(***************************************************************************)
ParFailing ==
    {i \in ParBranches : pa_task[i] = "done" /\ par_extract(pa_sugar, pa_raw[i]).tag = "Error"}
\* the Result in what run() returned
ParResult == par_extract(pa_sugar, pa_result.val)

\* C34: parallel and zip_par (and their _w forms) start every branch and
\* cancel none; when run() returns, every branch has completed, also when
\* one had returned an Error long before.  With a failing branch the result
\* is the Error of the failing branch of lowest input index, otherwise Ok of
\* the values in input order, for every completion order.  (Branches that
\* return a Result: one that raises makes run() raise.)
C34_AllCompleteLowestIndexError ==
    pa_sugar \in {"parallel", "parallel_w", "zip_par", "zip_par_w"} =>
        /\ \A i \in ParBranches : pa_task[i] # "cancelled"
        /\ pa_pc # "start" => \A i \in ParBranches : pa_task[i] # "created"
        /\ (pa_pc = "done" /\ pa_result.kind = "return") =>
              /\ \A i \in ParBranches : pa_task[i] = "done"
              /\ IF ParFailing = {}
                 THEN /\ ParResult.tag = "Ok"
                      /\ Len(ParResult.val) = pa_n
                      /\ \A i \in ParBranches :
                            ParResult.val[i] = par_extract(pa_sugar, pa_raw[i]).val
                 ELSE /\ ParResult.tag = "Error"
                      /\ \E i \in ParFailing :
                            /\ \A j \in ParFailing : i <= j
                            /\ ParResult.val = par_extract(pa_sugar, pa_raw[i]).val

\* zip_par of three branches: branch 3 fails first, then branch 1 fails, and
\* branch 2 succeeds last; only then run() returns, with the Error of branch 1
C34_Witness ==
    /\ pa_sugar = "zip_par"
    /\ pa_n = 3
    /\ pa_pc = "done"
    /\ pa_order = <<3, 1, 2>>
    /\ pa_raw[1] = Error("e1")
    /\ pa_raw[2].tag = "Ok"
    /\ pa_raw[3] = Error("e2")
    /\ pa_result = Return(Error("e1"))

(***************************************************************************)
(* Claims about best_of / best_of_many (checked under SpecBest)             *)
(***************************************************************************)
BestFailing == {i \in BestCandidates : bo_raw[i].tag = "Error"}

\* C35: with at least one candidate, all returning a Result: when all are Ok
\* the result is Ok(v) for the value v of a candidate whose key is at least
\* the key of every candidate's value, the earliest such candidate in input
\* order; when some candidate returned Error the result is the Error of the
\* failing candidate of lowest index, and no value is selected.
C35_BestByKey ==
    (/\ bo_pc = "done"
     /\ bo_n >= 1
     /\ \A i \in BestCandidates : bo_task[i] = "done") =>
        /\ bo_result.kind = "return"
        /\ IF BestFailing = {}
           THEN /\ bo_result.val.tag = "Ok"
                /\ \E i \in BestCandidates :
                      /\ bo_result.val.val = bo_raw[i].val
                      /\ \A j \in BestCandidates :
                            bo_key[bo_raw[j].val] <= bo_key[bo_raw[i].val]
                      /\ \A j \in 1..(i - 1) :
                            bo_key[bo_raw[j].val] < bo_key[bo_raw[i].val]
           ELSE /\ bo_result.val.tag = "Error"
                /\ \E i \in BestFailing :
                      /\ \A j \in BestFailing : i <= j
                      /\ bo_result.val = bo_raw[i]

\* three candidates completing in the order 3, 2, 1 with the values "v2",
\* "v1", "v1" and a key that is the same for both values: the result is the
\* value of candidate 1
C35_Witness ==
    /\ bo_sugar = "best_of_many"
    /\ bo_pc = "done"
    /\ bo_n = 3
    /\ bo_order = <<3, 2, 1>>
    /\ bo_key["v1"] = bo_key["v2"]
    /\ bo_raw = <<Ok("v2"), Ok("v1"), Ok("v1")>>
    /\ bo_result = Return(Ok("v2"))

(***************************************************************************)
(* Claims about waiting in acquire() (checked under SpecRateLimitLive)      *)
(***************************************************************************)
\* C36: with time advancing and every sleep that is over being resumed, a
\* caller asleep in acquire() on the bucket of a wrapper built from a policy
\* that passed validation is granted its token in the end, with burst
\* given or left out, alone or next to another caller on the same bucket.
C36_AcquireEventuallyReturns ==
    \A c \in Callers : (rl_pc[c] = "sleep") ~> (rl_pc[c] = "inner")

(***************************************************************************)
(* Claims about bracket_on_error and a use that does not return            *)
(* (checked under SpecBracketOnError)                                      *)
(***************************************************************************)
\* C37: once acquire has succeeded, run() of bracket_on_error never ends
\* with the resource unreleased unless use returned Ok: release has been
\* called when use returned Error and when use ended by an exception, a
\* cancellation (CancelledError raised at the await) included.
C37_ReleasedUnlessUseOk ==
    (b_pc = "done" /\ b_use.kind # "none") =>
        \/ b_release # "none"
        \/ /\ b_use.kind = "return"
           /\ extract_acquire(like_bracket(b_variant), b_use.val).tag = "Ok"

(***************************************************************************)
(* Claims about exceptions of the inner effect under timeout               *)
(* (checked under SpecTimeout)                                             *)
(***************************************************************************)
\* C38: when the inner effect raises before the deadline has fired, timeout
\* lets that exception through to the caller as it is, whatever its type (a
\* timeout-typed one included): it returns the TimeoutError failure only
\* when its own deadline fired.
C38_InnerExceptionPropagates ==
    (t_pc = "done" /\ ~t_expired /\ t_outcome.kind = "raise") =>
        /\ t_result.kind = "raise"
        /\ t_result = t_outcome


(***************************************************************************)
(* Claims about batch and batch_all under fair scheduling (checked under   *)
(* SpecBatchLive)                                                          *)
(***************************************************************************)
\* the slots of the semaphore that tasks hold: a running handler and a task
\* that release() has woken up
SlotsHeld == Cardinality({i \in BatchItems : ba_task[i] \in {"running", "woken"}})

\* C39: batch and batch_all complete whenever every handler terminates, for
\* every number of items and every concurrency >= 1: a slot is given back
\* when its handler ends, whether it returned Ok, returned Error or raised
\* (free slots and held slots always add up to the concurrency), every
\* waiting item gets to the end of its handler, and run() ends.
C39_BatchEventuallyCompletes ==
    /\ [](ba_pc \in {"gather", "done"} => ba_value + SlotsHeld = ba_concurrency)
    /\ \A i \in 1..MaxBatchItems :
          (ba_concurrency >= 1 /\ i \in BatchItems /\ ba_task[i] = "waiting")
              ~> (i \in BatchItems /\ ba_task[i] \in {"done", "raised"})
    /\ (ba_concurrency >= 1 /\ ba_pc = "start") ~> (ba_pc = "done")

\* batch_all over three items with one slot: the first handler raised, the
\* second returned an Error, the third returned Ok, and run() has ended
C39_Witness ==
    /\ ba_sugar = "batch_all"
    /\ ba_n = 3
    /\ ba_concurrency = 1
    /\ ba_pc = "done"
    /\ ba_order = <<1, 2, 3>>
    /\ ba_task = <<"raised", "done", "done">>
    /\ ba_returned[2].tag = "Error"
    /\ ba_returned[3].tag = "Ok"
    /\ ba_value = 1


(***************************************************************************)
(* Claims about the log of repeat_until_writer (checked under SpecRepeat)  *)
(***************************************************************************)
\* the entries of a log
RoundLogEntries(log) == {log[j] : j \in 1..Len(log)}

\* C40: repeat_until_writer returns the Result and the log of the round
\* that decided (an Ok whose value satisfies the condition, or an Error)
\* and nothing else; when no round decided it returns
\* Error(ConditionNotMetError(max_rounds)) with an empty log; no entry a
\* round that did not decide has written is in the returned log.
C40_WriterLogOfDecidingRound ==
    (ru_sugar = "repeat_until_writer" /\ ru_pc = "done") =>
        /\ ru_result.kind = "return"
        /\ IF RepeatDeciding # {}
           THEN /\ ru_result.val.result = ru_raws[Len(ru_raws)].result
                /\ ru_result.val.log = ru_raws[Len(ru_raws)].log
           ELSE /\ ru_result.val.result = Error(ConditionNotMetError(ru_policy.max_rounds))
                /\ ru_result.val.log = <<>>
        /\ \A k \in 1..Len(ru_raws) :
              k \notin RepeatDeciding =>
                  RoundLogEntries(ru_raws[k].log) \cap RoundLogEntries(ru_result.val.log) = {}

\* two rounds whose Ok value does not satisfy the condition, then a third
\* one whose value does: only the third round's log comes back
C40_Witness ==
    /\ ru_sugar = "repeat_until_writer"
    /\ ru_pc = "done"
    /\ ru_condition = {"v2"}
    /\ Len(ru_raws) = 3
    /\ ru_raws[1] = WriterResult(Ok("v1"), <<1>>)
    /\ ru_raws[2] = WriterResult(Ok("v1"), <<2>>)
    /\ ru_result = Return(WriterResult(Ok("v2"), <<3>>))

====
